---- MODULE Spec2Model ----
(***************************************************************************)
(* pyledger: the rule matcher, the confidence scorer and the transaction   *)
(* transformer of app/common/base_processor.py (class BaseProcessor).      *)
(*                                                                         *)
(* Strings are sequences of one-character strings, so that lower(),        *)
(* substring tests, glob translation and key concatenation are computed    *)
(* character by character as the Python code computes them.  Confidence    *)
(* and clarity scores are kept in tenths (0.7 is 7), amounts as integers.  *)
(*                                                                         *)
(* The specifications of the module:                                       *)
(*   SpecMatch  convert_pattern followed by match_rule on one rule         *)
(*   SpecScore  _assess_description_clarity and _calculate_confidence      *)
(*   Spec       transform_transactions, row by row, and its analytics      *)
(*   SpecTwice  transform_transactions called twice on the same arguments  *)
(*   SpecLoad   load_rules: shorthand detection, alias merge, normalising   *)
(*   SpecBlocks transform_transactions with rules that override description *)
(*   SpecBoth   transform_transactions without or with metadata, then with  *)
(*   SpecRun    ledger.main: load_rules, load_input_file, sort, normalise,  *)
(*              transform, review dashboard, ledger file                    *)
(***************************************************************************)
EXTENDS Integers, Sequences, FiniteSets, TLC

VARIABLES
  m_pc,            \* SpecMatch: "raw" -> "converted" -> "matched"
  m_match,         \* SpecMatch: the rule's `match` text as the user wrote it
  m_rule,          \* SpecMatch: the rule after convert_pattern
  m_description,   \* SpecMatch: the description handed to match_rule
  m_result,        \* SpecMatch: what match_rule returned
  s_pc,            \* SpecScore: "start" -> "assessed" -> "scored"
  s_rule,          \* SpecScore: the matched rule, or None
  s_description,   \* SpecScore: the description
  s_clarity,       \* SpecScore: what _assess_description_clarity returned
  s_result,        \* SpecScore: what _calculate_confidence returned
  rules,           \* the rule configuration: rules.rules.income / .expense
  transactions_df, \* the input rows, in order
  capture_metadata,        \* the flag of transform_transactions
  pc,              \* "ready" -> "loop" -> "done"
  idx,             \* rows of transactions_df processed so far
  rule,            \* the loop's `rule`: what match_rule returned for the last row
  output,          \* the output blocks so far
  transaction_metadata,    \* the metadata records so far
  rule_usage,      \* rule key -> count
  confidence_distribution, \* high / medium / low counts
  result,          \* what transform_transactions returned
  run,             \* SpecTwice: which call of transform_transactions this is (1 or 2)
  first_result,    \* SpecTwice: what the first call returned
  first_capture,   \* SpecBoth: the capture_metadata flag of the first call
  load_pc,         \* SpecLoad: "opened" -> "merged" -> "transformed" -> "returned" / "raised"
  yaml_rules,      \* SpecLoad: the rule file as yaml.safe_load returned it
  preset_file,     \* SpecLoad: presets/<bank>.yaml as the file system holds it
  bank_shortcuts,  \* SpecLoad: what _load_bank_preset returned
  combined_shortcuts,      \* SpecLoad: the merged alias table
  loaded_rules,    \* SpecLoad: the configuration after the transformation step
  run_pc,          \* SpecRun: the statement of ledger.main to execute next
  failure,         \* SpecRun: the exception that ended the run, "" while there is none
  rules_file,      \* SpecRun: the rule file as the file system holds it
  input_file,      \* SpecRun: the bank export as the file system holds it
  review,          \* SpecRun: the --review flag
  df,              \* SpecRun: the data frame handed from stage to stage
  ledger_file,     \* SpecRun: the ledger written to output.path, if it was written
  dashboard_file   \* SpecRun: the review dashboard written, if it was written

matchVars == <<m_pc, m_match, m_rule, m_description, m_result>>
scoreVars == <<s_pc, s_rule, s_description, s_clarity, s_result>>
inputVars == <<rules, transactions_df, capture_metadata>>
loopVars == <<rule, output, transaction_metadata, rule_usage, confidence_distribution>>
againVars == <<run, first_result, first_capture>>
mainVars == <<inputVars, pc, idx, loopVars, result, againVars>>
loadVars == <<load_pc, yaml_rules, preset_file, bank_shortcuts, combined_shortcuts, loaded_rules>>
runVars == <<run_pc, failure, rules_file, input_file, review, df, ledger_file, dashboard_file>>
vars == <<matchVars, scoreVars, mainVars, loadVars, runVars>>

----------------------------------------------------------------------------
(* Bounds *)

MaxLit == 2        \* longest text X after a shorthand keyword
MaxDescLen == 4    \* longest description of SpecMatch, in characters
MaxTokens == 3     \* longest description of SpecScore, in vocabulary tokens
MaxRules == 2      \* most rules in a configuration, both directions together
MaxTx == 2         \* most rows in the input

----------------------------------------------------------------------------
(* Python values *)

\* Python's None, for a rule (rules are records)
None == [is_none |-> TRUE]

\* pandas' NaN in a description cell; a one-element sequence that is no character
NaN == <<"NaN">>

isna(x) == x = NaN

\* str.lower() / str.upper() on the letters the model uses
LowerMap ==
  [A |-> "a", B |-> "b", C |-> "c", D |-> "d", E |-> "e", F |-> "f", G |-> "g",
   H |-> "h", I |-> "i", J |-> "j", K |-> "k", L |-> "l", M |-> "m", N |-> "n",
   O |-> "o", P |-> "p", Q |-> "q", R |-> "r", S |-> "s", T |-> "t", U |-> "u",
   V |-> "v", W |-> "w", X |-> "x", Y |-> "y", Z |-> "z"]

UpperMap ==
  [a |-> "A", b |-> "B", c |-> "C", d |-> "D", e |-> "E", f |-> "F", g |-> "G",
   h |-> "H", i |-> "I", j |-> "J", k |-> "K", l |-> "L", m |-> "M", n |-> "N",
   o |-> "O", p |-> "P", q |-> "Q", r |-> "R", s |-> "S", t |-> "T", u |-> "U",
   v |-> "V", w |-> "W", x |-> "X", y |-> "Y", z |-> "Z"]

lower_char(c) == IF c \in DOMAIN LowerMap THEN LowerMap[c] ELSE c

upper_char(c) == IF c \in DOMAIN UpperMap THEN UpperMap[c] ELSE c

RECURSIVE lower(_)
lower(s) == IF s = << >> THEN << >> ELSE <<lower_char(Head(s))>> \o lower(Tail(s))

RECURSIVE upper(_)
upper(s) == IF s = << >> THEN << >> ELSE <<upper_char(Head(s))>> \o upper(Tail(s))

\* s.startswith(p)
startswith(s, p) == Len(p) <= Len(s) /\ SubSeq(s, 1, Len(p)) = p

\* s.endswith(p)
endswith(s, p) == Len(p) <= Len(s) /\ SubSeq(s, Len(s) - Len(p) + 1, Len(s)) = p

\* `p in s` for strings
contains(s, p) ==
  \E i \in 1..(Len(s) - Len(p) + 1) : SubSeq(s, i, i + Len(p) - 1) = p

\* s[n:]
slice_from(s, n) == SubSeq(s, n + 1, Len(s))

\* Python dicts are functions on their keys
EmptyDict == [k \in {} |-> 0]

\* d[k] = v
dict_set(d, k, v) == [x \in DOMAIN d \cup {k} |-> IF x = k THEN v ELSE d[x]]

\* del d[k]
dict_del(d, k) == [x \in DOMAIN d \ {k} |-> d[x]]

\* d.get(k, default)
dict_get(d, k, default) == IF k \in DOMAIN d THEN d[k] ELSE default

\* yaml.safe_load of an empty document
YamlNone == [yaml_none |-> TRUE]

\* yaml.safe_load of a document that is a scalar, not a mapping
YamlScalar == [yaml_scalar |-> TRUE]

\* all strings over alphabet A of length at most n
StringsUpTo(A, n) == UNION {[1..k -> A] : k \in 0..n}

----------------------------------------------------------------------------
(* Pattern matcher *)

\* fnmatch.translate(pat): every "*" becomes ".*", every other character is
\* escaped to match itself, and the whole is wrapped as (?s:...)\Z, so the
\* regular expression is anchored at the END of the subject.  (The model's
\* patterns hold no "?" or "[".)
RECURSIVE translate_chars(_)
translate_chars(pat) ==
  IF pat = << >> THEN << >>
  ELSE <<IF Head(pat) = "*" THEN [kind |-> "any", ch |-> "*"]
                            ELSE [kind |-> "lit", ch |-> Head(pat)]>>
       \o translate_chars(Tail(pat))

\* a mutation: the translated pattern carries no end anchor
fnmatch_translate_unanchored(pat) == [res |-> translate_chars(pat), end_anchor |-> FALSE]

fnmatch_translate(pat) == [res |-> translate_chars(pat), end_anchor |-> TRUE]

\* the regular expression `res` matches a prefix of s (all of s when anchored)
RECURSIVE regex_match(_, _, _)
regex_match(res, s, end_anchor) ==
  IF res = << >> THEN (~end_anchor \/ s = << >>)
  ELSE IF Head(res).kind = "any"
       THEN \E k \in 0..Len(s) : regex_match(Tail(res), slice_from(s, k), end_anchor)
       ELSE /\ s # << >>
            /\ Head(s) = Head(res).ch
            /\ regex_match(Tail(res), Tail(s), end_anchor)

\* re.search(regex, s) is not None: a match may start at any position
re_search(regex, s) ==
  \E i \in 0..Len(s) : regex_match(regex.res, slice_from(s, i), regex.end_anchor)

\* the test of one rule inside match_rule's loop
rule_matches(a_rule, transaction_type) ==
  re_search(fnmatch_translate(lower(a_rule.transaction_type)), lower(transaction_type))

\* a mutation: the loop does not stop at the first match, the last match wins
RECURSIVE match_rule_last(_, _)
match_rule_last(transaction_type, rule_list) ==
  IF rule_list = << >> THEN None
  ELSE IF rule_matches(rule_list[Len(rule_list)], transaction_type)
       THEN rule_list[Len(rule_list)]
       ELSE match_rule_last(transaction_type, SubSeq(rule_list, 1, Len(rule_list) - 1))

RECURSIVE match_rule_loop(_, _, _)
match_rule_loop(transaction_type, rule_list, i) ==
  IF i > Len(rule_list) THEN None
  ELSE IF rule_matches(rule_list[i], transaction_type) THEN rule_list[i]
       ELSE match_rule_loop(transaction_type, rule_list, i + 1)

match_rule(transaction_type, rule_list) ==
  match_rule_loop(IF isna(transaction_type) THEN << >> ELSE transaction_type, rule_list, 1)

----------------------------------------------------------------------------
(* Rule normaliser: pattern shorthand *)

KwContains == <<"c", "o", "n", "t", "a", "i", "n", "s", " ">>
KwStartsWith == <<"s", "t", "a", "r", "t", "s", " ", "w", "i", "t", "h", " ">>
KwEndsWith == <<"e", "n", "d", "s", " ", "w", "i", "t", "h", " ">>
KwExactly == <<"e", "x", "a", "c", "t", "l", "y", " ">>

\* a mutation: the keywords are stripped again from what follows a keyword
RECURSIVE convert_pattern_repeated(_)
convert_pattern_repeated(pattern) ==
  IF startswith(pattern, KwContains)
  THEN <<"*">> \o convert_pattern_repeated(slice_from(pattern, 9)) \o <<"*">>
  ELSE IF startswith(pattern, KwStartsWith)
  THEN convert_pattern_repeated(slice_from(pattern, 12)) \o <<"*">>
  ELSE IF startswith(pattern, KwEndsWith)
  THEN <<"*">> \o convert_pattern_repeated(slice_from(pattern, 10))
  ELSE IF startswith(pattern, KwExactly)
  THEN convert_pattern_repeated(slice_from(pattern, 8))
  ELSE pattern

convert_pattern(pattern) ==
  IF startswith(pattern, KwContains) THEN <<"*">> \o slice_from(pattern, 9) \o <<"*">>
  ELSE IF startswith(pattern, KwStartsWith) THEN slice_from(pattern, 12) \o <<"*">>
  ELSE IF startswith(pattern, KwEndsWith) THEN <<"*">> \o slice_from(pattern, 10)
  ELSE IF startswith(pattern, KwExactly) THEN slice_from(pattern, 8)
  ELSE pattern

----------------------------------------------------------------------------
(* SpecMatch: one rule written in shorthand, converted, then matched *)

MatchAlphabet == {"a", "A", "b"}
Literals == StringsUpTo(MatchAlphabet, MaxLit)
PatternTexts == StringsUpTo(MatchAlphabet \cup {"*"}, MaxLit)
Keywords == {KwContains, KwStartsWith, KwEndsWith, KwExactly, << >>}
\* texts with a keyword inside X, a keyword in another case, a keyword without its blank
NestedTexts ==
  {KwContains \o KwExactly \o <<"a">>,
   KwExactly \o KwEndsWith \o <<"a">>,
   <<"C">> \o Tail(KwContains) \o <<"a">>,
   SubSeq(KwContains, 1, 8) \o <<"a">>}
MatchTexts == {kw \o x : kw \in Keywords, x \in PatternTexts} \cup NestedTexts
MatchDescriptions == StringsUpTo(MatchAlphabet, MaxDescLen) \cup {NaN}

\* the variables of SpecMatch while another specification runs
MatchIdle ==
  /\ m_pc = "idle"
  /\ m_match = << >>
  /\ m_rule = None
  /\ m_description = << >>
  /\ m_result = None

\* the variables of SpecScore while another specification runs
ScoreIdle ==
  /\ s_pc = "idle"
  /\ s_rule = None
  /\ s_description = << >>
  /\ s_clarity = 0
  /\ s_result = <<0, "none">>

\* the variables of Spec while another specification runs
MainIdle ==
  /\ rules = [rules |-> [income |-> << >>, expense |-> << >>]]
  /\ transactions_df = << >>
  /\ capture_metadata = FALSE
  /\ pc = "idle"
  /\ idx = 0
  /\ rule = None
  /\ output = << >>
  /\ transaction_metadata = << >>
  /\ rule_usage = << >>
  /\ confidence_distribution = [high |-> 0, medium |-> 0, low |-> 0]
  /\ result = << >>
  /\ run = 1
  /\ first_result = << >>
  /\ first_capture = FALSE

\* the variables of SpecLoad while another specification runs
LoadIdle ==
  /\ load_pc = "idle"
  /\ yaml_rules = EmptyDict
  /\ preset_file = [state |-> "missing"]
  /\ bank_shortcuts = EmptyDict
  /\ combined_shortcuts = EmptyDict
  /\ loaded_rules = EmptyDict

\* the variables of SpecRun while another specification runs
RunIdle ==
  /\ run_pc = "idle"
  /\ failure = ""
  /\ rules_file = [state |-> "missing"]
  /\ input_file = [layout |-> "amount", rows |-> << >>]
  /\ review = FALSE
  /\ df = << >>
  /\ ledger_file = << >>
  /\ dashboard_file = << >>

InitMatch ==
  /\ m_pc = "raw"
  /\ m_match \in MatchTexts
  /\ m_rule = None
  /\ m_description \in MatchDescriptions
  /\ m_result = None
  /\ ScoreIdle
  /\ MainIdle
  /\ LoadIdle
  /\ RunIdle

\* transform_rules, step 1: rule['transaction_type'] = convert_pattern(rule['match'])
MConvert ==
  /\ m_pc = "raw"
  /\ m_rule' = [transaction_type |-> convert_pattern(m_match)]
  /\ m_pc' = "converted"
  /\ UNCHANGED <<m_match, m_description, m_result, scoreVars, mainVars, loadVars, runVars>>

\* match_rule(description, [rule])
MMatch ==
  /\ m_pc = "converted"
  /\ m_result' = match_rule(m_description, <<m_rule>>)
  /\ m_pc' = "matched"
  /\ UNCHANGED <<m_match, m_rule, m_description, scoreVars, mainVars, loadVars, runVars>>

NextMatch == MConvert \/ MMatch

SpecMatch == InitMatch /\ [][NextMatch]_vars

----------------------------------------------------------------------------
(* Confidence scorer *)

IsSpace(c) == c = " "

\* str.strip() leaves nothing
blank(s) == \A i \in 1..Len(s) : IsSpace(s[i])

\* length of the run of non-blank characters that s starts with
RECURSIVE word_len(_)
word_len(s) ==
  IF s = << >> \/ IsSpace(Head(s)) THEN 0 ELSE 1 + word_len(Tail(s))

\* str.split(): the maximal runs of non-blank characters, in order
RECURSIVE split(_)
split(s) ==
  IF s = << >> THEN << >>
  ELSE IF IsSpace(Head(s)) THEN split(Tail(s))
       ELSE <<SubSeq(s, 1, word_len(s))>> \o split(slice_from(s, word_len(s)))

RECURSIVE sum_len(_)
sum_len(words) == IF words = << >> THEN 0 ELSE Len(Head(words)) + sum_len(Tail(words))

business_terms ==
  {<<"S", "A", "L", "A", "R", "Y">>, <<"G", "R", "O", "C", "E", "R", "Y">>,
   <<"R", "E", "N", "T">>, <<"P", "A", "Y", "M", "E", "N", "T">>,
   <<"S", "T", "O", "R", "E">>, <<"P", "U", "R", "C", "H", "A", "S", "E">>}

cryptic_patterns ==
  {<<"P", "O", "S">>, <<"T", "X", "N">>, <<"R", "E", "F">>, <<"C", "O", "D", "E">>}

\* a mutation: the cryptic test is made before the business-context test
clarity_cryptic_first(description) ==
  IF description = << >> \/ blank(description) THEN 0
  ELSE LET desc_upper == upper(description)
           words == split(description)
           has_business_context == \E term \in business_terms : contains(desc_upper, term)
           has_cryptic_patterns == \E pattern \in cryptic_patterns : contains(desc_upper, pattern)
           total == sum_len(words)
           count == Len(words)
       IN  IF has_cryptic_patterns \/ total <= 3 * count THEN 0
           ELSE IF has_business_context /\ total >= 4 * count THEN 10
           ELSE 5

\* In tenths: 0 cryptic, 5 neutral, 10 clear.  avg_word_length = total/count is
\* compared as total >= 4*count and total <= 3*count, exact on these sizes.
_assess_description_clarity(description) ==
  IF description = << >> \/ blank(description) THEN 0
  ELSE LET desc_upper == upper(description)
           words == split(description)
           has_business_context == \E term \in business_terms : contains(desc_upper, term)
           has_cryptic_patterns == \E pattern \in cryptic_patterns : contains(desc_upper, pattern)
           total == sum_len(words)
           count == Len(words)
           avg_ge_4 == IF count > 0 THEN total >= 4 * count ELSE FALSE
           avg_le_3 == IF count > 0 THEN total <= 3 * count ELSE TRUE
       IN  IF has_business_context /\ avg_ge_4 THEN 10
           ELSE IF has_cryptic_patterns \/ avg_le_3 THEN 0
           ELSE 5

\* round(x, 1) of a value given in hundredths, as tenths (ties to even)
round1(hundredths) ==
  LET q == hundredths \div 10
      r == hundredths % 10
  IN  IF r > 5 \/ (r = 5 /\ q % 2 = 1) THEN q + 1 ELSE q

\* Returns <<confidence in tenths, a_rule type>>.
\* a mutation: every rule is scored as a wildcard rule
confidence_without_specificity(a_rule, description) ==
  IF a_rule = None THEN <<1, "none">>
  ELSE <<round1(30 + _assess_description_clarity(description) * 2), "wildcard">>

\* a mutation: clarity is added to base_confidence, not to the low end of the band
confidence_from_base(a_rule, description) ==
  IF a_rule = None THEN <<1, "none">>
  ELSE LET is_wildcard == \E i \in 1..Len(a_rule.transaction_type) : a_rule.transaction_type[i] = "*"
       IN  <<round1((IF is_wildcard THEN 50 ELSE 90) + _assess_description_clarity(description) * 2),
             IF is_wildcard THEN "wildcard" ELSE "specific">>

_calculate_confidence(a_rule, description) ==
  IF a_rule = None THEN <<1, "none">>
  ELSE LET is_wildcard == \E i \in 1..Len(a_rule.transaction_type) : a_rule.transaction_type[i] = "*"
           rule_type == IF is_wildcard THEN "wildcard" ELSE "specific"
           clarity_score == _assess_description_clarity(description)
           confidence == IF is_wildcard THEN 30 + clarity_score * 2
                                        ELSE 70 + clarity_score * 2
       IN  <<round1(confidence), rule_type>>

----------------------------------------------------------------------------
(* SpecScore: the scorer on descriptions built from a vocabulary *)

ScoreTokens ==
  {<<"R", "E", "N", "T">>, <<"S", "t", "o", "r", "e">>, <<"P", "O", "S">>,
   <<"c", "o", "d", "e">>, <<"a", "b">>, <<"a", "b", "c", "d">>, <<" ">>}

RECURSIVE concat(_)
concat(parts) == IF parts = << >> THEN << >> ELSE Head(parts) \o concat(Tail(parts))

ScoreDescriptions == {concat(ts) : ts \in StringsUpTo(ScoreTokens, MaxTokens)}

ScoreRules ==
  {None} \cup {[transaction_type |-> p] :
                 p \in {<<"*">>, <<"*", "r", "e", "n", "t", "*">>,
                        <<"r", "e", "n", "t">>, << >>}}

InitScore ==
  /\ s_pc = "start"
  /\ s_rule \in ScoreRules
  /\ s_description \in ScoreDescriptions
  /\ s_clarity = 0
  /\ s_result = <<0, "none">>
  /\ MatchIdle
  /\ MainIdle
  /\ LoadIdle
  /\ RunIdle

\* a call of _assess_description_clarity(description)
SAssess ==
  /\ s_pc = "start"
  /\ s_clarity' = _assess_description_clarity(s_description)
  /\ s_pc' = "assessed"
  /\ UNCHANGED <<s_rule, s_description, s_result, matchVars, mainVars, loadVars, runVars>>

\* a call of _calculate_confidence(rule, description)
SCalculate ==
  /\ s_pc = "assessed"
  /\ s_result' = _calculate_confidence(s_rule, s_description)
  /\ s_pc' = "scored"
  /\ UNCHANGED <<s_rule, s_description, s_clarity, matchVars, mainVars, loadVars, runVars>>

NextScore == SAssess \/ SCalculate

SpecScore == InitScore /\ [][NextScore]_vars

----------------------------------------------------------------------------
(* Transaction transformer *)

INCOME == <<"i", "n", "c", "o", "m", "e">>
EXPENSE == <<"e", "x", "p", "e", "n", "s", "e">>
NO_MATCH == <<"n", "o", "_", "m", "a", "t", "c", "h">>
DOT == <<".">>

\* Python's None where a rule key (a string) is expected
NoneKey == <<"None">>

Digits == {"0", "1", "2", "3", "4", "5", "6", "7", "8", "9"}

DigitValue ==
  ("0" :> 0) @@ ("1" :> 1) @@ ("2" :> 2) @@ ("3" :> 3) @@ ("4" :> 4) @@
  ("5" :> 5) @@ ("6" :> 6) @@ ("7" :> 7) @@ ("8" :> 8) @@ ("9" :> 9)

\* s.replace(old, new) for a one-character old
RECURSIVE replace_char(_, _, _)
replace_char(s, old, new) ==
  IF s = << >> THEN << >>
  ELSE (IF Head(s) = old THEN new ELSE <<Head(s)>>) \o replace_char(Tail(s), old, new)

RECURSIVE digits_value(_, _)
digits_value(s, acc) ==
  IF s = << >> THEN acc ELSE digits_value(Tail(s), 10 * acc + DigitValue[Head(s)])

\* float(amount_str.replace(",", "")) on whole-number amounts
float_of_amount(amount_str) ==
  LET t == replace_char(amount_str, ",", << >>)
  IN  IF t # << >> /\ Head(t) = "-" THEN 0 - digits_value(Tail(t), 0)
      ELSE digits_value(t, 0)

abs(x) == IF x < 0 THEN 0 - x ELSE x

\* dateutil.parser.parse(d).strftime("%Y/%m/%d") on dates written YYYY-MM-DD
format_date(d) == replace_char(d, "-", <<"/">>)

IsAlpha(c) == c \in DOMAIN LowerMap \/ c \in DOMAIN UpperMap

\* re.sub(r"[^a-zA-Z0-9 ]+", " ", s): every run of other characters becomes one blank
RECURSIVE re_sub_other(_, _)
re_sub_other(s, in_run) ==
  IF s = << >> THEN << >>
  ELSE IF IsAlpha(Head(s)) \/ Head(s) \in Digits \/ Head(s) = " "
       THEN <<Head(s)>> \o re_sub_other(Tail(s), FALSE)
       ELSE (IF in_run THEN << >> ELSE <<" ">>) \o re_sub_other(Tail(s), TRUE)

\* str.title(): a letter after a letter is lowered, any other letter is raised
RECURSIVE title_from(_, _)
title_from(s, after_letter) ==
  IF s = << >> THEN << >>
  ELSE <<IF after_letter THEN lower_char(Head(s)) ELSE upper_char(Head(s))>>
       \o title_from(Tail(s), IsAlpha(Head(s)))

title(s) == title_from(s, FALSE)

amount_prefix(rs) ==
  IF "output" \in DOMAIN rs /\ "amount" \in DOMAIN rs.output
     /\ "prefix" \in DOMAIN rs.output.amount
  THEN rs.output.amount.prefix ELSE "$"

\* a mutation: a zero amount is taken for income
applicable_rules_zero_income(rs, amount) ==
  IF amount >= 0 THEN rs.rules.income ELSE rs.rules.expense

\* applicable_rules = income_rules if amount > 0 else expense_rules
applicable_rules(rs, amount) ==
  IF amount > 0 THEN rs.rules.income ELSE rs.rules.expense

\* rule_type = "income" if amount > 0 else "expense"; the key of a matched rule
rule_key_of(r, amount) ==
  IF r # None
  THEN (IF amount > 0 THEN INCOME ELSE EXPENSE) \o DOT \o r.transaction_type
  ELSE NO_MATCH

\* description, NaN replaced by ""
row_description(row) == IF isna(row.description) THEN << >> ELSE row.description

\* the loop's rule for one row
row_rule(rs, row) ==
  match_rule(row_description(row), applicable_rules(rs, float_of_amount(row.amount)))

\* a mutation: the record of an unmatched row carries the key "no_match"
tx_metadata_no_match_key(row, r) ==
  LET description == row_description(row)
      amount == float_of_amount(row.amount)
      scored == _calculate_confidence(r, description)
  IN  [description |-> description,
       amount |-> amount,
       date |-> format_date(row.date),
       confidence_score |-> scored[1],
       matched_rule_type |-> scored[2],
       rule_matched |-> r # None,
       matched_rule_key |-> rule_key_of(r, amount)]

\* tx_metadata of one row, whose matched rule (or None) is r
tx_metadata(row, r) ==
  LET description == row_description(row)
      amount == float_of_amount(row.amount)
      scored == _calculate_confidence(r, description)
  IN  [description |-> description,
       amount |-> amount,
       date |-> format_date(row.date),
       confidence_score |-> scored[1],
       matched_rule_type |-> scored[2],
       rule_matched |-> r # None,
       matched_rule_key |-> IF r # None THEN rule_key_of(r, amount) ELSE NoneKey]

\* a mutation: metadata is tracked for matched transactions only
metadata_appended_if_matched(tm, md) == IF md.rule_matched THEN Append(tm, md) ELSE tm

\* transaction_metadata.append(tx_metadata), for ALL transactions
metadata_appended(tm, md) == Append(tm, md)

\* a mutation: the count is set, not incremented
usage_set_to_one(usage, key) ==
  [k \in DOMAIN usage \cup {key} |-> IF k = key THEN 1 ELSE usage[k]]

\* a mutation: a transaction without a matching rule is not counted
usage_counted_if_matched(usage, key) ==
  IF key = NO_MATCH THEN usage
  ELSE [k \in DOMAIN usage \cup {key} |->
          (IF k \in DOMAIN usage THEN usage[k] ELSE 0) + (IF k = key THEN 1 ELSE 0)]

\* rule_usage[rule_key] = rule_usage.get(rule_key, 0) + 1
usage_incremented(usage, key) ==
  [k \in DOMAIN usage \cup {key} |->
     (IF k \in DOMAIN usage THEN usage[k] ELSE 0) + (IF k = key THEN 1 ELSE 0)]

\* the confidence band counted for a score (in tenths)
distribution_incremented(dist, confidence_score) ==
  IF confidence_score >= 9 THEN [dist EXCEPT !.high = @ + 1]
  ELSE IF confidence_score >= 5 THEN [dist EXCEPT !.medium = @ + 1]
  ELSE [dist EXCEPT !.low = @ + 1]

\* a mutation: the block always carries the transaction's own description
output_block_own_description(rs, row, r) ==
  [date |-> format_date(row.date),
   description |-> replace_char(title(re_sub_other(row_description(row), FALSE)), "\n", <<" ">>),
   debit_account |-> r.debit_account,
   amount_prefix |-> amount_prefix(rs),
   amount |-> abs(float_of_amount(row.amount)),
   credit_account |-> r.credit_account]

\* the output block of a matched row (its fields, in the order they are printed)
output_block(rs, row, r) ==
  LET description == row_description(row)
      desc_for_output == IF "description" \in DOMAIN r THEN r.description ELSE description
  IN  [date |-> format_date(row.date),
       description |-> replace_char(title(re_sub_other(desc_for_output, FALSE)), "\n", <<" ">>),
       debit_account |-> r.debit_account,
       amount_prefix |-> amount_prefix(rs),
       amount |-> abs(float_of_amount(row.amount)),
       credit_account |-> r.credit_account]

----------------------------------------------------------------------------
(* Rule analytics aggregator *)

\* all_rules: the key of every defined rule, income first, duplicates kept
all_rules(rs) ==
  [i \in 1..Len(rs.rules.income) |-> INCOME \o DOT \o rs.rules.income[i].transaction_type]
  \o [i \in 1..Len(rs.rules.expense) |-> EXPENSE \o DOT \o rs.rules.expense[i].transaction_type]

\* whether a record is counted into rule_metrics
Counted(tx) == tx.matched_rule_key # NoneKey /\ tx.matched_rule_key # NO_MATCH

\* the confidence scores recorded for a key, in order
scores_of(tm, k) ==
  LET hits == SelectSeq(tm, LAMBDA tx : Counted(tx) /\ tx.matched_rule_key = k)
  IN  [i \in 1..Len(hits) |-> hits[i].confidence_score]

RECURSIVE sum_seq(_)
sum_seq(xs) == IF xs = << >> THEN 0 ELSE Head(xs) + sum_seq(Tail(xs))

rule_metrics(tm) ==
  [k \in {tm[i].matched_rule_key : i \in {j \in 1..Len(tm) : Counted(tm[j])}} |->
     [sum |-> sum_seq(scores_of(tm, k)), count |-> Len(scores_of(tm, k))]]

\* The score sequences whose float mean lies halfway between two tenths and
\* which round(sum/count, 1) rounds UP (the others halfway round down): the
\* float sum depends on the order of the addends.  One rule's scores lie in
\* one band; the table covers up to five matches of a rule.
HalfwayRoundsUp ==
  {<<4, 5>>, <<5, 4>>, <<3, 3, 5, 3>>, <<3, 4, 4, 3>>, <<3, 5, 3, 3>>,
   <<3, 5, 5, 5>>, <<4, 3, 4, 3>>, <<4, 4, 3, 3>>, <<4, 4, 5, 5>>,
   <<4, 5, 4, 5>>, <<5, 3, 3, 3>>, <<5, 3, 5, 5>>, <<5, 4, 4, 5>>,
   <<5, 5, 3, 5>>, <<5, 5, 5, 3>>, <<7, 8>>, <<8, 7>>, <<8, 9>>, <<9, 8>>,
   <<7, 7, 8, 8>>, <<7, 7, 9, 7>>, <<7, 8, 7, 8>>, <<7, 8, 8, 7>>,
   <<7, 9, 7, 7>>, <<8, 7, 7, 8>>, <<8, 7, 8, 7>>, <<8, 8, 7, 7>>,
   <<8, 9, 9, 8>>, <<9, 7, 7, 7>>, <<9, 8, 9, 8>>, <<9, 9, 8, 8>>,
   <<9, 9, 9, 7>>}

\* a mutation: the sum is not divided by the count
avg_confidence_undivided(scores) == sum_seq(scores)

\* round(v["sum"] / v["count"], 1) in tenths
avg_confidence(scores) ==
  LET n == Len(scores)
      q == sum_seq(scores) \div n
      r == sum_seq(scores) % n
  IN  IF 2 * r > n \/ (2 * r = n /\ scores \in HalfwayRoundsUp) THEN q + 1 ELSE q

rule_effectiveness(tm) ==
  [k \in DOMAIN rule_metrics(tm) |->
     [avg_confidence |-> avg_confidence(scores_of(tm, k)),
      usage_count |-> rule_metrics(tm)[k].count]]

\* the keys of rule_metrics in the order they were first inserted
RECURSIVE first_seen(_, _)
first_seen(tm, seen) ==
  IF tm = << >> THEN << >>
  ELSE IF Counted(Head(tm)) /\ Head(tm).matched_rule_key \notin seen
       THEN <<Head(tm).matched_rule_key>>
            \o first_seen(Tail(tm), seen \cup {Head(tm).matched_rule_key})
       ELSE first_seen(Tail(tm), seen)

\* round(x / y * 100, 2) in hundredths of a percent
percentage(x, y) == (x * 20000 + y) \div (2 * y)

\* a mutation: no rule is left out of the list
unused_rules_unfiltered(all, used_rules) == all

\* unused_rules: the rules of all_rules, in order, whose key was not used
unused_rules_of(all, used_rules) == SelectSeq(all, LAMBDA k : k \notin used_rules)

_generate_rule_analytics(rs, usage, tm) ==
  LET used_rules == DOMAIN usage \ {NO_MATCH}
      unused_rules == unused_rules_of(all_rules(rs), used_rules)
      total_rules == Len(all_rules(rs))
      transactions_with_rules == Cardinality({i \in 1..Len(tm) : tm[i].rule_matched})
      effectiveness == rule_effectiveness(tm)
  IN  [rule_usage |-> usage,
       unused_rules |-> unused_rules,
       rule_effectiveness |-> effectiveness,
       coverage_analysis |->
         [total_rules_defined |-> total_rules,
          rules_used |-> Cardinality(used_rules),
          rules_unused |-> Len(unused_rules),
          usage_percentage |->
            IF total_rules > 0 THEN percentage(Cardinality(used_rules), total_rules) ELSE 0,
          total_transactions |-> Len(tm),
          transactions_with_rules |-> transactions_with_rules,
          transactions_without_rules |-> Len(tm) - transactions_with_rules],
       insights |->
         [configuration_cleanup |-> [removable_rules |-> unused_rules],
          rule_quality |->
            [high_performing_rules |->
               SelectSeq(first_seen(tm, {}), LAMBDA k : effectiveness[k].avg_confidence >= 8),
             low_performing_rules |->
               SelectSeq(first_seen(tm, {}), LAMBDA k : effectiveness[k].avg_confidence < 5)]]]

----------------------------------------------------------------------------
(* Spec: transform_transactions on a configuration and an input *)

Acct == [bank |-> "Assets:Bank", rent |-> "Income:Rent", misc |-> "Expenses:Misc"]

\* the rules a configuration is written from
RuleCatalog ==
  {[transaction_type |-> <<"r", "e", "n", "t">>,
    debit_account |-> Acct.bank, credit_account |-> Acct.rent],
   [transaction_type |-> <<"*", "R", "e", "n", "t", "*">>,
    debit_account |-> Acct.misc, credit_account |-> Acct.bank]}

Directions == {"income", "expense"}

\* a configuration written as a list of (direction, rule) entries
RuleEntryLists == StringsUpTo(Directions \X RuleCatalog, MaxRules)

rules_of(entries) ==
  LET pick(d) == SelectSeq(entries, LAMBDA e : e[1] = d)
  IN  [rules |->
        [income |-> [i \in 1..Len(pick("income")) |-> pick("income")[i][2]],
         expense |-> [i \in 1..Len(pick("expense")) |-> pick("expense")[i][2]]]]

RowDescriptions ==
  {<<"R", "E", "N", "T">>,
   <<"R", "E", "N", "T", " ", "A", "B", "C">>,
   NaN}

RowAmounts == {<<"1", ",", "0", "0", "0">>, <<"-", "5">>, <<"0">>}

RowDates == {<<"2", "0", "2", "4", "-", "0", "7", "-", "1", "9">>}

Rows == [date : RowDates, description : RowDescriptions, amount : RowAmounts]

Init ==
  /\ \E entries \in RuleEntryLists : rules = rules_of(entries)
  /\ transactions_df \in StringsUpTo(Rows, MaxTx)
  /\ capture_metadata \in BOOLEAN
  /\ pc = "ready"
  /\ idx = 0
  /\ rule = None
  /\ output = << >>
  /\ transaction_metadata = << >>
  /\ rule_usage = << >>
  /\ confidence_distribution = [high |-> 0, medium |-> 0, low |-> 0]
  /\ result = << >>
  /\ run = 1
  /\ first_result = << >>
  /\ first_capture = FALSE
  /\ MatchIdle
  /\ ScoreIdle
  /\ LoadIdle
  /\ RunIdle

\* a mutation: the output list of the previous call is kept
stale_output == output

\* output = []
fresh_output == << >>

\* a mutation: a block is put in front of the list
output_prepended(out, block) == <<block>> \o out

\* output.append(...)
output_appended(out, block) == Append(out, block)

\* a mutation: the pair is returned only when there are metadata records
returned_pair_if_any(capture, out, metadata) ==
  IF capture /\ metadata.transactions # << >> THEN <<out, metadata>> ELSE out

\* a mutation: with metadata the pair carries no output blocks
returned_value_output_dropped(capture, out, metadata) ==
  IF capture THEN <<<< >>, metadata>> ELSE out

\* the return statement: (output, metadata) or output
returned_value(capture, out, metadata) == IF capture THEN <<out, metadata>> ELSE out

\* transform_transactions is called: its accumulators are created empty
TransformStart ==
  /\ pc = "ready"
  /\ pc' = "loop"
  /\ idx' = 0
  /\ rule' = None
  /\ output' = fresh_output
  /\ transaction_metadata' = << >>
  /\ rule_usage' = << >>
  /\ confidence_distribution' = [high |-> 0, medium |-> 0, low |-> 0]
  /\ UNCHANGED <<inputVars, result, againVars, matchVars, scoreVars, loadVars, runVars>>

\* one pass of the loop body, on row idx + 1
ProcessRow ==
  /\ pc = "loop"
  /\ idx < Len(transactions_df)
  /\ \E row \in {transactions_df[idx + 1]} :
       \E r \in {row_rule(rules, row)} :
         \E md \in {tx_metadata(row, r)} :
           /\ rule' = r
           /\ IF capture_metadata
              THEN /\ transaction_metadata' = metadata_appended(transaction_metadata, md)
                   /\ rule_usage' =
                        usage_incremented(rule_usage,
                                          rule_key_of(r, float_of_amount(row.amount)))
                   /\ confidence_distribution' =
                        distribution_incremented(confidence_distribution,
                                                 md.confidence_score)
              ELSE UNCHANGED <<transaction_metadata, rule_usage, confidence_distribution>>
           /\ IF r # None
              THEN output' = output_appended(output, output_block(rules, row, r))
              ELSE UNCHANGED output
  /\ idx' = idx + 1
  /\ UNCHANGED <<inputVars, pc, result, againVars, matchVars, scoreVars, loadVars, runVars>>

\* the loop is over: the return value is built
TransformReturn ==
  /\ pc = "loop"
  /\ idx = Len(transactions_df)
  /\ result' =
       IF capture_metadata
       THEN returned_value(TRUE, output,
              [transactions |-> transaction_metadata,
               summary |->
                 [total_transactions |-> Len(transaction_metadata),
                  rule_usage |-> rule_usage,
                  confidence_distribution |-> confidence_distribution],
               rule_analytics |->
                 _generate_rule_analytics(rules, rule_usage, transaction_metadata)])
       ELSE returned_value(FALSE, output, [transactions |-> << >>])
  /\ pc' = "done"
  /\ UNCHANGED <<inputVars, idx, loopVars, againVars, matchVars, scoreVars, loadVars, runVars>>

Next == TransformStart \/ ProcessRow \/ TransformReturn

Spec == Init /\ [][Next]_vars

----------------------------------------------------------------------------
(* SpecTwice: transform_transactions called twice on one processor, with   *)
(* the same rows and rules and capture_metadata = False                    *)

InitTwice == Init /\ ~capture_metadata

\* the caller keeps the first list and calls again with the same arguments
TransformAgain ==
  /\ pc = "done"
  /\ run = 1
  /\ run' = 2
  /\ first_result' = result
  /\ first_capture' = capture_metadata
  /\ pc' = "ready"
  /\ UNCHANGED <<inputVars, idx, loopVars, result, matchVars, scoreVars, loadVars, runVars>>

NextTwice == TransformStart \/ ProcessRow \/ TransformReturn \/ TransformAgain

SpecTwice == InitTwice /\ [][NextTwice]_vars

----------------------------------------------------------------------------
(* Rule loader: load_rules and the rule normaliser *)

\* has_simplified_syntax(rules): some income or expense entry has a `match`
has_simplified_syntax(rs) ==
  IF rs = YamlNone \/ DOMAIN rs = {} \/ "rules" \notin DOMAIN rs THEN FALSE
  ELSE \E rule_type \in {"income", "expense"} \cap DOMAIN rs.rules :
         \E i \in 1..Len(rs.rules[rule_type]) : "match" \in DOMAIN rs.rules[rule_type][i]

\* resolve_account: shortcuts.get(account, account)
resolve_account(account, shortcuts) == dict_get(shortcuts, account, account)

\* a mutation: the shorthand keys are kept beside the canonical ones
transform_rule_keeping_keys(a_rule, shortcuts) ==
  LET r1 == IF "match" \in DOMAIN a_rule
            THEN dict_set(a_rule, "transaction_type", convert_pattern(a_rule.match))
            ELSE a_rule
      r2 == IF "to" \in DOMAIN r1
            THEN dict_set(r1, "debit_account", resolve_account(r1.to, shortcuts))
            ELSE r1
  IN  IF "from" \in DOMAIN r2
      THEN dict_set(r2, "credit_account", resolve_account(r2.from, shortcuts))
      ELSE r2

\* a mutation: a canonical field already present is not overwritten
transform_rule_keeping_present(a_rule, shortcuts) ==
  LET put(d, k, v) == IF k \in DOMAIN d THEN d ELSE dict_set(d, k, v)
      r1 == IF "match" \in DOMAIN a_rule
            THEN dict_del(put(a_rule, "transaction_type", convert_pattern(a_rule.match)), "match")
            ELSE a_rule
      r2 == IF "to" \in DOMAIN r1
            THEN dict_del(put(r1, "debit_account", resolve_account(r1.to, shortcuts)), "to")
            ELSE r1
  IN  IF "from" \in DOMAIN r2
      THEN dict_del(put(r2, "credit_account", resolve_account(r2.from, shortcuts)), "from")
      ELSE r2

\* the body of transform_rules' inner loop, on one rule of the copy
transform_rule(a_rule, shortcuts) ==
  LET r1 == IF "match" \in DOMAIN a_rule
            THEN dict_del(dict_set(a_rule, "transaction_type", convert_pattern(a_rule.match)),
                          "match")
            ELSE a_rule
      r2 == IF "to" \in DOMAIN r1
            THEN dict_del(dict_set(r1, "debit_account", resolve_account(r1.to, shortcuts)), "to")
            ELSE r1
  IN  IF "from" \in DOMAIN r2
      THEN dict_del(dict_set(r2, "credit_account", resolve_account(r2.from, shortcuts)), "from")
      ELSE r2

\* transform_rules(rules, shortcuts): a deep copy whose income and expense
\* rules went through the loop body
transform_rules(rs, shortcuts) ==
  [rs EXCEPT !.rules =
     [rule_type \in DOMAIN rs.rules |->
        IF rule_type \in {"income", "expense"}
        THEN [i \in 1..Len(rs.rules[rule_type]) |->
                transform_rule(rs.rules[rule_type][i], shortcuts)]
        ELSE rs.rules[rule_type]]]

\* a mutation: the exception of a preset file that is not YAML is not caught
_load_bank_preset_uncaught(bank_name, file) ==
  IF bank_name = "" THEN [raised |-> FALSE, shortcuts |-> EmptyDict]
  ELSE IF file.state = "missing" THEN [raised |-> FALSE, shortcuts |-> EmptyDict]
  ELSE IF file.state = "malformed" THEN [raised |-> TRUE, shortcuts |-> EmptyDict]
  ELSE IF file.preset = YamlScalar THEN [raised |-> TRUE, shortcuts |-> EmptyDict]
  ELSE IF file.preset = YamlNone \/ DOMAIN file.preset = {}
       THEN [raised |-> FALSE, shortcuts |-> EmptyDict]
  ELSE [raised |-> FALSE, shortcuts |-> dict_get(file.preset, "accounts", EmptyDict)]

\* a mutation: the loop writes to the argument, not to a copy
rules_transformed_in_place(rs, shortcuts) == transform_rules(rs, shortcuts)

\* the argument of transform_rules after the call: the loop writes to
\* copy.deepcopy(rules) only, the argument is as it was
rules_after_transform_rules(rs, shortcuts) == rs

\* _load_bank_preset(bank_name) on the preset file as it is: the aliases
\* returned, or raised = TRUE for an exception the function does not catch
_load_bank_preset(bank_name, file) ==
  IF bank_name = "" THEN [raised |-> FALSE, shortcuts |-> EmptyDict]
  ELSE IF file.state \in {"missing", "malformed"} THEN [raised |-> FALSE, shortcuts |-> EmptyDict]
  ELSE IF file.preset = YamlScalar THEN [raised |-> TRUE, shortcuts |-> EmptyDict]
  ELSE IF file.preset = YamlNone \/ DOMAIN file.preset = {}
       THEN [raised |-> FALSE, shortcuts |-> EmptyDict]
  ELSE [raised |-> FALSE, shortcuts |-> dict_get(file.preset, "accounts", EmptyDict)]

\* a mutation: the preset's aliases override the user's
shortcuts_preset_first(bank, user) ==
  [k \in DOMAIN bank \cup DOMAIN user |-> IF k \in DOMAIN bank THEN bank[k] ELSE user[k]]

\* {**bank_shortcuts, **user_shortcuts}
shortcuts_merged(bank, user) ==
  [k \in DOMAIN bank \cup DOMAIN user |-> IF k \in DOMAIN user THEN user[k] ELSE bank[k]]

\* validate(rules, schema) raising ValidationError: the schema requires a
\* mapping with a `rules` key whose entries carry the three canonical fields
schema_rejects(rs) ==
  \/ rs = YamlNone
  \/ "rules" \notin DOMAIN rs
  \/ \E d \in DOMAIN rs.rules : \E i \in 1..Len(rs.rules[d]) :
       ~({"transaction_type", "debit_account", "credit_account"} \subseteq DOMAIN rs.rules[d][i])

----------------------------------------------------------------------------
(* SpecLoad: load_rules on a rule file and a preset file *)

UserAccounts ==
  {[checking |-> "Assets:User:Checking"],
   [checking |-> "Assets:User:Checking", visa |-> "Liabilities:Visa"]}

PresetAccounts == [checking |-> "Assets:Bank:Checking", savings |-> "Assets:Bank:Savings"]

\* the rule entries a rule file is written from: shorthand, shorthand with a
\* description, canonical, and shorthand beside canonical fields
LoadRuleCatalog ==
  {[match |-> KwContains \o <<"a">>, to |-> "checking", from |-> "Income:Salary"],
   [match |-> <<"b">>, to |-> "Expenses:Food", from |-> "savings", description |-> "Food"],
   [transaction_type |-> <<"x", "*">>, debit_account |-> "Assets:Cash",
    credit_account |-> "savings"],
   [match |-> KwExactly \o <<"a">>, transaction_type |-> <<"o", "l", "d">>,
    to |-> "visa", debit_account |-> "Old:Debit",
    from |-> "Income:Other", credit_account |-> "Old:Credit", note |-> "kept"]}

LoadEntryLists == StringsUpTo(Directions \X LoadRuleCatalog, MaxRules)

\* the `rules` mapping of a file; a direction without rules is left out of it
\* when omit_empty is set
rule_lists(entries, omit_empty) ==
  LET pick(d) == SelectSeq(entries, LAMBDA e : e[1] = d)
      list(d) == [i \in 1..Len(pick(d)) |-> pick(d)[i][2]]
  IN  [d \in {x \in Directions : ~omit_empty \/ pick(x) # << >>} |-> list(d)]

\* a key that may be absent is given as a list of no or one value
Optional(S) == {<< >>} \cup {<<x>> : x \in S}

\* the bank name of the file with the preset file found under that name
BankAndPreset ==
  (Optional({""}) \X {[state |-> "missing"]})
  \cup ({<<"dbs">>} \X ({[state |-> "missing"], [state |-> "malformed"]}
                        \cup {[state |-> "parsed", preset |-> y] :
                                y \in {YamlNone, YamlScalar, [name |-> "dbs"],
                                       [name |-> "dbs", accounts |-> PresetAccounts]}}))

\* the mapping read from a rule file
rule_file(entries, omit_empty, accounts, bank) ==
  LET base == [input |-> "csv", rules |-> rule_lists(entries, omit_empty)]
      with_accounts == IF accounts = << >> THEN base
                       ELSE dict_set(base, "accounts", accounts[1])
  IN  IF bank = << >> THEN with_accounts ELSE dict_set(with_accounts, "bank", bank[1])

InitLoad ==
  /\ load_pc = "opened"
  /\ \E bp \in BankAndPreset, entries \in LoadEntryLists, omit_empty \in BOOLEAN,
        accounts \in Optional(UserAccounts) :
       /\ preset_file = bp[2]
       /\ yaml_rules = rule_file(entries, omit_empty, accounts, bp[1])
  /\ bank_shortcuts = EmptyDict
  /\ combined_shortcuts = EmptyDict
  /\ loaded_rules = EmptyDict
  /\ MatchIdle
  /\ ScoreIdle
  /\ MainIdle
  /\ RunIdle

\* shorthand detected: the preset is loaded and merged with the user's aliases
LoadShortcuts ==
  /\ load_pc = "opened"
  /\ has_simplified_syntax(yaml_rules)
  /\ \E loaded \in {_load_bank_preset(dict_get(yaml_rules, "bank", ""), preset_file)} :
       IF loaded.raised
       THEN /\ load_pc' = "raised"
            /\ UNCHANGED <<bank_shortcuts, combined_shortcuts>>
       ELSE /\ bank_shortcuts' = loaded.shortcuts
            /\ combined_shortcuts' =
                 shortcuts_merged(loaded.shortcuts, dict_get(yaml_rules, "accounts", EmptyDict))
            /\ load_pc' = "merged"
  /\ UNCHANGED <<yaml_rules, preset_file, loaded_rules, matchVars, scoreVars, mainVars, runVars>>

\* rules = self.transform_rules(rules, combined_shortcuts)
LoadTransform ==
  /\ load_pc = "merged"
  /\ loaded_rules' = transform_rules(yaml_rules, combined_shortcuts)
  /\ yaml_rules' = rules_after_transform_rules(yaml_rules, combined_shortcuts)
  /\ load_pc' = "transformed"
  /\ UNCHANGED <<preset_file, bank_shortcuts, combined_shortcuts,
                 matchVars, scoreVars, mainVars, runVars>>

\* no shorthand: the rules go to validation as they were read
LoadCanonical ==
  /\ load_pc = "opened"
  /\ ~has_simplified_syntax(yaml_rules)
  /\ loaded_rules' = yaml_rules
  /\ load_pc' = "transformed"
  /\ UNCHANGED <<yaml_rules, preset_file, bank_shortcuts, combined_shortcuts,
                 matchVars, scoreVars, mainVars, runVars>>

\* validate(rules, schema): rules the schema rejects raise ValidationError;
\* the schema file decides on the others, which are returned or raise
LoadValidate ==
  /\ load_pc = "transformed"
  /\ \E valid \in {v \in BOOLEAN : v => ~schema_rejects(loaded_rules)} :
       load_pc' = IF valid THEN "returned" ELSE "raised"
  /\ UNCHANGED <<yaml_rules, preset_file, bank_shortcuts, combined_shortcuts, loaded_rules,
                 matchVars, scoreVars, mainVars, runVars>>

NextLoad == LoadShortcuts \/ LoadTransform \/ LoadCanonical \/ LoadValidate

SpecLoad == InitLoad /\ [][NextLoad]_vars

----------------------------------------------------------------------------
(* The stages of a run before transform_transactions *)

\* a date text the parser accepts: YYYY-MM-DD
IsDateText(d) ==
  /\ Len(d) = 10
  /\ d[5] = "-" /\ d[8] = "-"
  /\ \A i \in (1..10) \ {5, 8} : d[i] \in Digits

\* dateutil.parser.parse on a date cell: the date as the number YYYYMMDD, or
\* raised = TRUE (ValueError) for a text that is no date
dateutil_parse(d) ==
  IF IsDateText(d)
  THEN [raised |-> FALSE, value |-> digits_value(replace_char(d, "-", << >>), 0)]
  ELSE [raised |-> TRUE, value |-> 0]

\* transactions_df[transactions_df[headers["date"]].notna()]
notna_rows(rows) == SelectSeq(rows, LAMBDA row : ~isna(row.date))

\* sort_values(by="sort") with the default sort kind, which is not stable:
\* the orders it can leave the rows in are those ascending by the sort
\* column, rows with equal values in any order
sort_values(rows) ==
  {[i \in 1..Len(rows) |-> rows[p[i]]] :
     p \in {q \in Permutations(1..Len(rows)) :
              \A i, j \in 1..Len(rows) : i < j => rows[q[i]].sort <= rows[q[j]].sort}}

\* sort_transactions(transactions_df, headers): raised = TRUE when a date that
\* is not null cannot be parsed, otherwise the frames it can return
sort_transactions(rows) ==
  LET kept == notna_rows(rows)
  IN  IF \E i \in 1..Len(kept) : dateutil_parse(kept[i].date).raised
      THEN [raised |-> TRUE, outcomes |-> {}]
      ELSE [raised |-> FALSE,
            outcomes |->
              sort_values([i \in 1..Len(kept) |->
                             dict_set(kept[i], "sort", dateutil_parse(kept[i].date).value)])]

\* a mutation: a cell that is no number is read as 0
float_parse_lenient(x) ==
  LET t == replace_char(x, ",", << >>)
      body == IF t # << >> /\ Head(t) = "-" THEN Tail(t) ELSE t
  IN  IF body # << >> /\ \A i \in 1..Len(body) : body[i] \in Digits
      THEN [raised |-> FALSE, value |-> float_of_amount(x)]
      ELSE [raised |-> FALSE, value |-> 0]

\* float(x.replace(",", "")) on a cell of the amount column: raised = TRUE
\* for a cell that is no number
float_parse(x) ==
  LET t == replace_char(x, ",", << >>)
      body == IF t # << >> /\ Head(t) = "-" THEN Tail(t) ELSE t
  IN  IF body # << >> /\ \A i \in 1..Len(body) : body[i] \in Digits
      THEN [raised |-> FALSE, value |-> float_of_amount(x)]
      ELSE [raised |-> TRUE, value |-> 0]

\* safe_float_convert(x): 0.0 for a null, blank or unparseable cell
safe_float_convert(x) ==
  IF isna(x) \/ blank(x) THEN 0
  ELSE IF float_parse(x).raised THEN 0 ELSE float_parse(x).value

\* the columns normalize_transactions writes on one row
normalized_row(row, withdraw, deposit) ==
  [index |-> row.index, date |-> row.date, description |-> row.description,
   sort |-> row.sort, withdraw |-> withdraw, deposit |-> deposit,
   amount |-> deposit + withdraw]

\* normalize_transactions(transactions_df, headers): with an amount column
\* every cell goes through float() and a bad cell raises; with withdrawal and
\* deposit columns every cell goes through safe_float_convert
normalize_transactions(layout, rows) ==
  IF layout = "amount"
  THEN IF \E i \in 1..Len(rows) : float_parse(rows[i].amount).raised
       THEN [raised |-> TRUE, rows |-> << >>]
       ELSE [raised |-> FALSE,
             rows |-> [i \in 1..Len(rows) |->
                         LET x == float_parse(rows[i].amount).value
                         IN  normalized_row(rows[i], IF x < 0 THEN x ELSE 0,
                                            IF x > 0 THEN x ELSE 0)]]
  ELSE [raised |-> FALSE,
        rows |-> [i \in 1..Len(rows) |->
                    normalized_row(rows[i], 0 - safe_float_convert(rows[i].withdraw),
                                   safe_float_convert(rows[i].deposit))]]

DigitChar == <<"0", "1", "2", "3", "4", "5", "6", "7", "8", "9">>

RECURSIVE digits_of(_)
digits_of(n) == IF n < 10 THEN <<DigitChar[n + 1]>> ELSE digits_of(n \div 10) \o <<DigitChar[(n % 10) + 1]>>

\* str(row[headers["amount"]]) of a whole-number amount, without its ".0"
str_of_amount(x) == IF x < 0 THEN <<"-">> \o digits_of(0 - x) ELSE digits_of(x)

\* generate_markdown_dashboard(metadata): the summary figures and the three
\* confidence groups the markdown is assembled from
generate_markdown_dashboard(metadata) ==
  LET transactions == metadata.transactions
  IN  [total_transactions |-> Len(transactions),
       high_confidence |-> SelectSeq(transactions, LAMBDA tx : tx.confidence_score >= 9),
       medium_confidence |->
         SelectSeq(transactions, LAMBDA tx : 4 <= tx.confidence_score /\ tx.confidence_score < 9),
       low_confidence |-> SelectSeq(transactions, LAMBDA tx : tx.confidence_score < 4)]

----------------------------------------------------------------------------
(* SpecRun: ledger.main on a rule file and a bank export *)

RunDates ==
  {NaN,
   <<"2", "0", "2", "4", "-", "0", "7", "-", "1", "9">>,
   <<"2", "0", "2", "4", "-", "0", "7", "-", "2", "0">>,
   <<"b", "a", "d">>}

\* cells of a single amount column
AmountCells == {<<"5">>, <<"-", "5">>, <<"x">>}

\* cells of a withdrawal and a deposit column, side by side
WithdrawDepositCells ==
  {<<<<"5">>, << >>>>, <<NaN, <<"7">>>>, <<<<"x">>, << >>>>}

\* the rows of an export, labelled 0, 1, ... as read_csv labels them
RunInputFiles ==
  {[layout |-> "amount",
    rows |-> [i \in 1..Len(cells) |->
                [index |-> i - 1, date |-> cells[i][1],
                 description |-> <<"R", "E", "N", "T">>, amount |-> cells[i][2]]]] :
     cells \in StringsUpTo(RunDates \X AmountCells, MaxTx)}
  \cup
  {[layout |-> "withdraw_deposit",
    rows |-> [i \in 1..Len(cells) |->
                [index |-> i - 1, date |-> cells[i][1],
                 description |-> <<"R", "E", "N", "T">>,
                 withdraw |-> cells[i][2][1], deposit |-> cells[i][2][2]]]] :
     cells \in StringsUpTo(RunDates \X WithdrawDepositCells, MaxTx)}

\* a rule file in canonical form, one rule per direction
CanonicalFile ==
  [rules |->
     [income |-> <<[transaction_type |-> <<"r", "e", "n", "t">>,
                    debit_account |-> Acct.bank, credit_account |-> Acct.rent]>>,
      expense |-> <<[transaction_type |-> <<"*", "R", "e", "n", "t", "*">>,
                     debit_account |-> Acct.misc, credit_account |-> Acct.bank]>>]]

\* a rule file in the simplified syntax, with an alias table
ShorthandFile ==
  [rules |->
     [income |-> <<[match |-> KwContains \o <<"r", "e", "n", "t">>,
                    to |-> "checking", from |-> Acct.rent]>>,
      expense |-> << >>],
   accounts |-> [checking |-> "Assets:User:Checking"],
   output |-> [path |-> "output.txt"]]

\* the rule file as found: absent, not YAML, empty, against the schema
\* (no `rules`; an entry without credit_account), or well-formed
RunRuleFiles ==
  {[state |-> "missing"], [state |-> "malformed"]}
  \cup {[state |-> "parsed", content |-> y] :
          y \in {YamlNone,
                 [output |-> [path |-> "output.txt"]],
                 [rules |-> [income |-> <<[transaction_type |-> <<"r", "e", "n", "t">>,
                                           debit_account |-> Acct.bank]>>,
                             expense |-> << >>],
                  output |-> [path |-> "output.txt"]],
                 CanonicalFile,
                 dict_set(CanonicalFile, "output", [path |-> "output.txt"]),
                 ShorthandFile}}

InitRun ==
  /\ run_pc = "load_rules"
  /\ failure = ""
  /\ rules_file \in RunRuleFiles
  /\ input_file \in RunInputFiles
  /\ review \in BOOLEAN
  /\ df = << >>
  /\ ledger_file = << >>
  /\ dashboard_file = << >>
  /\ MatchIdle
  /\ ScoreIdle
  /\ MainIdle
  /\ LoadIdle

\* rules.get("output", {}).get("path")
output_path(rs) ==
  IF "output" \in DOMAIN rs /\ "path" \in DOMAIN rs.output THEN rs.output.path ELSE ""

\* a mutation: a rule file that cannot be opened is read as the canonical one
yaml_safe_load_default(file) ==
  IF file.state = "missing" THEN [raised |-> "", rules |-> CanonicalFile]
  ELSE IF file.state = "malformed" THEN [raised |-> "YAMLError", rules |-> YamlNone]
  ELSE [raised |-> "", rules |-> file.content]

\* open(file_path) and yaml.safe_load(file): the exception raised, or the
\* document (None for an empty file)
yaml_safe_load(file) ==
  IF file.state = "missing" THEN [raised |-> "FileNotFoundError", rules |-> YamlNone]
  ELSE IF file.state = "malformed" THEN [raised |-> "YAMLError", rules |-> YamlNone]
  ELSE [raised |-> "", rules |-> file.content]

\* load_rules opens the rule file and parses it
RunOpenRules ==
  /\ run_pc = "load_rules" /\ load_pc = "idle" /\ failure = ""
  /\ \E opened \in {yaml_safe_load(rules_file)} :
       IF opened.raised # ""
       THEN failure' = opened.raised /\ UNCHANGED <<load_pc, yaml_rules>>
       ELSE yaml_rules' = opened.rules /\ load_pc' = "opened" /\ UNCHANGED failure
  /\ UNCHANGED <<run_pc, rules_file, input_file, review, df, ledger_file, dashboard_file,
                 preset_file, bank_shortcuts, combined_shortcuts, loaded_rules,
                 matchVars, scoreVars, mainVars>>

\* load_rules returned: the processor keeps the rules and its headers
RunRulesLoaded ==
  /\ run_pc = "load_rules" /\ load_pc = "returned"
  /\ rules' = loaded_rules
  /\ run_pc' = "load_input_file"
  /\ UNCHANGED <<transactions_df, capture_metadata, pc, idx, loopVars, result, againVars,
                 failure, rules_file, input_file, review, df, ledger_file, dashboard_file,
                 matchVars, scoreVars, loadVars>>

\* load_input_file reads the export
RunLoadInput ==
  /\ run_pc = "load_input_file"
  /\ df' = input_file.rows
  /\ run_pc' = "sort_transactions"
  /\ UNCHANGED <<failure, rules_file, input_file, review, ledger_file, dashboard_file,
                 matchVars, scoreVars, mainVars, loadVars>>

\* transactions_df = processor.sort_transactions(transactions, headers)
RunSort ==
  /\ run_pc = "sort_transactions" /\ failure = ""
  /\ \E sorted \in {sort_transactions(df)} :
       IF sorted.raised
       THEN failure' = "ValueError" /\ UNCHANGED <<run_pc, df>>
       ELSE /\ df' \in sorted.outcomes
            /\ run_pc' = "normalize_transactions"
            /\ UNCHANGED failure
  /\ UNCHANGED <<rules_file, input_file, review, ledger_file, dashboard_file,
                 matchVars, scoreVars, mainVars, loadVars>>

\* transactions_df = processor.normalize_transactions(transactions_df, headers)
RunNormalize ==
  /\ run_pc = "normalize_transactions" /\ failure = ""
  /\ \E normalized \in {normalize_transactions(input_file.layout, df)} :
       IF normalized.raised
       THEN failure' = "ValueError" /\ UNCHANGED <<run_pc, df>>
       ELSE /\ df' = normalized.rows
            /\ run_pc' = "transform_transactions"
            /\ UNCHANGED failure
  /\ UNCHANGED <<rules_file, input_file, review, ledger_file, dashboard_file,
                 matchVars, scoreVars, mainVars, loadVars>>

\* main calls transform_transactions, with capture_metadata=True under --review
RunTransform ==
  /\ run_pc = "transform_transactions" /\ pc = "idle"
  /\ transactions_df' =
       [i \in 1..Len(df) |->
          [date |-> df[i].date, description |-> df[i].description,
           amount |-> str_of_amount(df[i].amount)]]
  /\ capture_metadata' = review
  /\ pc' = "ready"
  /\ UNCHANGED <<rules, idx, loopVars, result, againVars, runVars,
                 matchVars, scoreVars, loadVars>>

\* the review branch after the call: the dashboard is written, the confidence
\* analysis is echoed (its average divides by the number of transactions),
\* then the ledger is written to output.path if there is one
RunReview ==
  /\ run_pc = "transform_transactions" /\ pc = "done" /\ review /\ failure = ""
  /\ dashboard_file' = <<generate_markdown_dashboard(result[2])>>
  /\ IF Len(result[2].transactions) = 0
     THEN failure' = "ZeroDivisionError" /\ UNCHANGED <<run_pc, ledger_file>>
     ELSE /\ ledger_file' = IF output_path(rules) # "" THEN <<result[1]>> ELSE << >>
          /\ run_pc' = "end"
          /\ UNCHANGED failure
  /\ UNCHANGED <<rules_file, input_file, review, df, matchVars, scoreVars, mainVars, loadVars>>

\* the normal branch after the call: the ledger is written to output.path,
\* or echoed when there is none
RunWrite ==
  /\ run_pc = "transform_transactions" /\ pc = "done" /\ ~review
  /\ ledger_file' = IF output_path(rules) # "" THEN <<result>> ELSE << >>
  /\ run_pc' = "end"
  /\ UNCHANGED <<failure, rules_file, input_file, review, df, dashboard_file,
                 matchVars, scoreVars, mainVars, loadVars>>

NextRun ==
  \/ RunOpenRules \/ LoadShortcuts \/ LoadTransform \/ LoadCanonical \/ LoadValidate
  \/ RunRulesLoaded \/ RunLoadInput \/ RunSort \/ RunNormalize
  \/ RunTransform \/ TransformStart \/ ProcessRow \/ TransformReturn
  \/ RunReview \/ RunWrite

SpecRun == InitRun /\ [][NextRun]_vars

----------------------------------------------------------------------------
(* Properties.  The reference notions below are stated on the inputs,      *)
(* apart from the operators that compute the results.                      *)

Min(S) == CHOOSE x \in S : \A y \in S : x <= y

HasStar(s) == \E i \in 1..Len(s) : s[i] = "*"

\* for each pattern of the rule catalog, the descriptions of Spec's rows that
\* the matcher's test accepts (NaN read as ""), tabulated once
MatchTable ==
  [p \in {r.transaction_type : r \in RuleCatalog} |->
     {d \in {row_description([description |-> x]) : x \in RowDescriptions} :
        rule_matches([transaction_type |-> p], d)}]

\* the positions of the rules of a list whose pattern matches a description
MatchingIndices(d, rule_list) ==
  {i \in 1..Len(rule_list) : d \in MatchTable[rule_list[i].transaction_type]}

\* an amount text denotes a number above zero: no minus sign, some non-zero digit
IsPositiveAmount(amount_str) ==
  /\ \A i \in 1..Len(amount_str) : amount_str[i] # "-"
  /\ \E i \in 1..Len(amount_str) : amount_str[i] \in Digits \ {"0"}

DescOf(row) == IF row.description = NaN THEN << >> ELSE row.description

OwnRules(row) ==
  IF IsPositiveAmount(row.amount) THEN rules.rules.income ELSE rules.rules.expense

OtherRules(row) ==
  IF IsPositiveAmount(row.amount) THEN rules.rules.expense ELSE rules.rules.income

OwnPrefix(row) == IF IsPositiveAmount(row.amount) THEN INCOME ELSE EXPENSE

\* row i has a matching rule in the list of its direction
RowMatched(i) == MatchingIndices(DescOf(transactions_df[i]), OwnRules(transactions_df[i])) # {}

\* the first matching rule of row i, in the list of its direction
FirstRule(i) ==
  OwnRules(transactions_df[i])
    [Min(MatchingIndices(DescOf(transactions_df[i]), OwnRules(transactions_df[i])))]

\* the key under which row i is counted
FirstKey(i) ==
  IF RowMatched(i)
  THEN OwnPrefix(transactions_df[i]) \o DOT \o FirstRule(i).transaction_type
  ELSE NO_MATCH

Running == pc \in {"loop", "done"}

Returned == pc = "done"

\* C1: match_rule returns the first rule, in list order, whose pattern matches
\* the description, and None when no rule matches; with several matching rules
\* the one of smallest index is returned, whether or not a later one is more
\* specific.
C1_FirstMatchWins ==
  (Running /\ idx >= 1) =>
    LET row == transactions_df[idx]
        hits == MatchingIndices(DescOf(row), applicable_rules(rules, float_of_amount(row.amount)))
    IN  IF hits = {} THEN rule = None
        ELSE rule = applicable_rules(rules, float_of_amount(row.amount))[Min(hits)]

\* a row matched by a wildcard rule and by a later wildcard-free rule: the
\* earlier, wildcard, rule was returned
C1_Witness ==
  /\ Running /\ idx >= 1
  /\ LET row == transactions_df[idx]
         own == OwnRules(row)
     IN  /\ Cardinality(MatchingIndices(DescOf(row), own)) >= 2
         /\ HasStar(own[1].transaction_type)
         /\ ~HasStar(own[2].transaction_type)
         /\ rule = own[1]
         /\ rule # own[2]

Matched == m_pc = "matched"

MDesc == IF m_description = NaN THEN << >> ELSE m_description

\* C2 (as claimed): a rule written "contains X" / "starts with X" /
\* "ends with X" / "exactly X", X without wildcards, is matched exactly when,
\* ignoring case, X is a substring of / a prefix of / a suffix of / equal to
\* the description.
C2_ShorthandMatchesAsNamed ==
  Matched =>
    \A x \in Literals \ {<< >>} :
      /\ m_match = KwContains \o x =>
           ((m_result # None) <=> contains(lower(MDesc), lower(x)))
      /\ m_match = KwStartsWith \o x =>
           ((m_result # None) <=> startswith(lower(MDesc), lower(x)))
      /\ m_match = KwEndsWith \o x =>
           ((m_result # None) <=> endswith(lower(MDesc), lower(x)))
      /\ m_match = KwExactly \o x =>
           ((m_result # None) <=> lower(MDesc) = lower(x))

\* C3 (as claimed): a pattern without wildcard matches every description in
\* which it occurs, ignoring case, as a substring at any position.
C3_SubstringAnywhere ==
  (Matched /\ m_rule.transaction_type \in Literals) =>
    (contains(lower(MDesc), lower(m_rule.transaction_type)) => m_result # None)

\* C3 (amended): a pattern without wildcard matches a description exactly
\* when, ignoring case, the description ENDS with the pattern: the search may
\* start anywhere, and the translated pattern is anchored at the end.
C3_SuffixMatch ==
  (Matched /\ m_rule.transaction_type \in Literals) =>
    ((m_result # None) <=> endswith(lower(MDesc), lower(m_rule.transaction_type)))

\* pattern "A" found at the end of "ba", in the other case
C3_Witness ==
  /\ Matched
  /\ m_rule.transaction_type = <<"A">>
  /\ m_description = <<"b", "a">>
  /\ m_result = m_rule

\* C4: one metadata record per input transaction, one output block per
\* matched transaction; an unmatched transaction adds no block and one record
\* with rule_matched = false.  Holds after every row and of the returned pair.
C4_OneRecordPerTransaction ==
  /\ Running => Len(output) = Cardinality({i \in 1..idx : RowMatched(i)})
  /\ (Running /\ capture_metadata) =>
       /\ Len(transaction_metadata) = idx
       /\ \A i \in 1..idx : transaction_metadata[i].rule_matched = RowMatched(i)
  /\ (Returned /\ capture_metadata) =>
       /\ Len(result[1]) = Cardinality({i \in 1..Len(transactions_df) : RowMatched(i)})
       /\ Len(result[2].transactions) = Len(transactions_df)
       /\ result[2].summary.total_transactions = Len(transactions_df)

\* two rows, one matched and one not: one block, two records
C4_Witness ==
  /\ Returned /\ capture_metadata
  /\ Len(transactions_df) = 2
  /\ RowMatched(1) /\ ~RowMatched(2)
  /\ Len(result[1]) = 1
  /\ Len(result[2].transactions) = 2
  /\ ~result[2].transactions[2].rule_matched

\* C5: a transaction is matched against the rules of its direction only
\* (amount > 0: income, otherwise expense), and the recorded rule key carries
\* the prefix of that direction.
C5_OwnDirectionOnly ==
  /\ (Running /\ idx >= 1) =>
       \/ rule = None /\ ~RowMatched(idx)
       \/ RowMatched(idx) /\ rule = FirstRule(idx)
  /\ (Running /\ capture_metadata) =>
       \A i \in 1..idx :
         /\ transaction_metadata[i].rule_matched = RowMatched(i)
         /\ RowMatched(i) =>
              /\ transaction_metadata[i].matched_rule_key = FirstKey(i)
              /\ startswith(transaction_metadata[i].matched_rule_key,
                            OwnPrefix(transactions_df[i]) \o DOT)

\* a row of amount zero that only an income rule matches stays unmatched
C5_Witness ==
  /\ Running /\ capture_metadata /\ idx >= 1
  /\ ~IsPositiveAmount(transactions_df[idx].amount)
  /\ transactions_df[idx].amount = <<"0">>
  /\ MatchingIndices(DescOf(transactions_df[idx]), OtherRules(transactions_df[idx])) # {}
  /\ rule = None
  /\ ~transaction_metadata[idx].rule_matched

\* C6: every metadata record: unmatched has confidence 0.1 and type "none";
\* matched by a pattern without "*" has type "specific" and confidence in
\* {0.7, 0.8, 0.9}; matched by a pattern with "*" has type "wildcard" and
\* confidence in {0.3, 0.4, 0.5}.
C6_ConfidenceBands ==
  \A i \in 1..Len(transaction_metadata) :
    LET tx == transaction_metadata[i]
    IN  /\ ~tx.rule_matched =>
             tx.confidence_score = 1 /\ tx.matched_rule_type = "none"
        /\ (tx.rule_matched /\ ~HasStar(tx.matched_rule_key)) =>
             tx.confidence_score \in {7, 8, 9} /\ tx.matched_rule_type = "specific"
        /\ (tx.rule_matched /\ HasStar(tx.matched_rule_key)) =>
             tx.confidence_score \in {3, 4, 5} /\ tx.matched_rule_type = "wildcard"

\* records of a wildcard match and of an unmatched transaction, side by side
C6_Witness ==
  /\ Len(transaction_metadata) = 2
  /\ transaction_metadata[1].rule_matched
  /\ HasStar(transaction_metadata[1].matched_rule_key)
  /\ transaction_metadata[1].confidence_score = 4
  /\ ~transaction_metadata[2].rule_matched
  /\ transaction_metadata[2].confidence_score = 1

Scored == s_pc = "scored"

\* C7: for a matched rule, confidence = base_low + clarity * 0.2, base_low 0.3
\* for a wildcard rule and 0.7 for a specific one: 0.5 / 0.4 / 0.3 and
\* 0.9 / 0.8 / 0.7 for clear / neutral / cryptic.
C7_ConfidenceTable ==
  (Scored /\ s_rule # None) =>
    /\ s_clarity \in {0, 5, 10}
    /\ s_result[1] * 10 = (IF HasStar(s_rule.transaction_type) THEN 30 ELSE 70) + s_clarity * 2
    /\ s_result =
         IF HasStar(s_rule.transaction_type)
         THEN <<CASE s_clarity = 10 -> 5 [] s_clarity = 5 -> 4 [] OTHER -> 3, "wildcard">>
         ELSE <<CASE s_clarity = 10 -> 9 [] s_clarity = 5 -> 8 [] OTHER -> 7, "specific">>

\* a specific rule on a neutral description scores 0.8
C7_Witness ==
  /\ Scored
  /\ s_rule # None
  /\ ~HasStar(s_rule.transaction_type)
  /\ s_clarity = 5
  /\ s_result = <<8, "specific">>

\* ignoring case, term occurs in d
OccursIgnoringCase(d, term) ==
  \E i \in 0..(Len(d) - Len(term)) :
    \A j \in 1..Len(term) : upper_char(d[i + j]) = upper_char(term[j])

NonBlankCount(d) == Cardinality({i \in 1..Len(d) : d[i] # " "})

WordCount(d) == Cardinality({i \in 1..Len(d) : d[i] # " " /\ (i = 1 \/ d[i - 1] = " ")})

HasBusinessTerm(d) == \E term \in business_terms : OccursIgnoringCase(d, term)

HasCrypticPattern(d) == \E term \in cryptic_patterns : OccursIgnoringCase(d, term)

\* C8: clarity is 0.0 for an empty or blank description; else 1.0 with a
\* business term and an average word length >= 4 (decided first, a cryptic
\* pattern notwithstanding); else 0.0 with a cryptic pattern or an average
\* word length <= 3; else 0.5.
C8_ClarityCases ==
  (s_pc \in {"assessed", "scored"}) =>
    LET d == s_description
        letters == NonBlankCount(d)
        words == WordCount(d)
    IN  /\ s_clarity \in {0, 5, 10}
        /\ s_clarity =
             IF letters = 0 THEN 0
             ELSE IF HasBusinessTerm(d) /\ letters >= 4 * words THEN 10
             ELSE IF HasCrypticPattern(d) \/ letters <= 3 * words THEN 0
             ELSE 5

\* a business term and a cryptic pattern in one long word: clear
C8_Witness ==
  /\ s_pc = "assessed"
  /\ HasBusinessTerm(s_description)
  /\ HasCrypticPattern(s_description)
  /\ NonBlankCount(s_description) >= 4 * WordCount(s_description)
  /\ s_clarity = 10

Coverage == result[2].rule_analytics.coverage_analysis

\* C9 (as claimed): rules_used + rules_unused = total_rules_defined and
\* transactions_with_rules + transactions_without_rules = total_transactions,
\* for every rule set, also with several rules sharing direction and pattern.
C9_CoverageAddsUp ==
  (Returned /\ capture_metadata) =>
    /\ Coverage.rules_used + Coverage.rules_unused = Coverage.total_rules_defined
    /\ Coverage.transactions_with_rules + Coverage.transactions_without_rules
         = Coverage.total_transactions

\* the keys of the defined rules
RuleKeys == {all_rules(rules)[i] : i \in 1..Len(all_rules(rules))}

CountKey(k) == Cardinality({i \in 1..Len(transactions_df) : FirstKey(i) = k})

\* C10 (as claimed): rule_usage[k] is the number of transactions whose first
\* matching rule has key k, and rule_usage has an entry only for rule keys
\* with at least one matched transaction.
C10_UsageOnlyRuleKeys ==
  (Returned /\ capture_metadata) =>
    /\ DOMAIN result[2].summary.rule_usage = {k \in RuleKeys : CountKey(k) >= 1}
    /\ \A k \in DOMAIN result[2].summary.rule_usage :
         result[2].summary.rule_usage[k] = CountKey(k)

\* C10 (amended): rule_usage[k] is the number of transactions whose first
\* matching rule has key k, for every rule key k with at least one such
\* transaction; besides these it has the entry "no_match", counting the
\* transactions without a matching rule, when there is at least one.
C10_UsageCounts ==
  (Returned /\ capture_metadata) =>
    /\ DOMAIN result[2].summary.rule_usage =
         {k \in RuleKeys \cup {NO_MATCH} : CountKey(k) >= 1}
    /\ \A k \in DOMAIN result[2].summary.rule_usage :
         result[2].summary.rule_usage[k] = CountKey(k)
    /\ result[2].rule_analytics.rule_usage = result[2].summary.rule_usage

\* one rule matched by two transactions
C10_Witness ==
  /\ Returned /\ capture_metadata
  /\ \E k \in RuleKeys :
       /\ CountKey(k) = 2
       /\ result[2].summary.rule_usage[k] = 2

Analytics == result[2].rule_analytics

SeqSet(xs) == {xs[i] : i \in 1..Len(xs)}

\* C11: unused_rules holds exactly the keys of the defined rules that have no
\* entry in rule_usage; no used key is in it; removable_rules equals it.
C11_UnusedRules ==
  (Returned /\ capture_metadata) =>
    /\ SeqSet(Analytics.unused_rules) = {k \in RuleKeys : k \notin DOMAIN Analytics.rule_usage}
    /\ SeqSet(Analytics.unused_rules) = {k \in RuleKeys : CountKey(k) = 0}
    /\ SeqSet(Analytics.unused_rules) \cap (DOMAIN Analytics.rule_usage \ {NO_MATCH}) = {}
    /\ Analytics.insights.configuration_cleanup.removable_rules = Analytics.unused_rules

\* two rules defined, one matched by a transaction, the other listed as unused
C11_Witness ==
  /\ Returned /\ capture_metadata
  /\ Cardinality(RuleKeys) = 2
  /\ Len(Analytics.unused_rules) = 1
  /\ \E k \in RuleKeys : CountKey(k) >= 1
  /\ Analytics.insights.configuration_cleanup.removable_rules # << >>

\* the positions of the metadata records matched to key k
RecordsOf(k) ==
  {i \in 1..Len(transaction_metadata) :
     transaction_metadata[i].rule_matched /\ transaction_metadata[i].matched_rule_key = k}

ScoreSum(k) == sum_seq([i \in 1..Len(transaction_metadata) |->
                          IF i \in RecordsOf(k) THEN transaction_metadata[i].confidence_score
                          ELSE 0])

\* C12: rule_effectiveness has an entry exactly for each used rule key; its
\* usage_count is the number of records matched to the key and equals
\* rule_usage for the key; its avg_confidence is the mean of the records'
\* confidence rounded to one decimal (at most half a tenth from the mean) and
\* lies between the smallest and the largest of them.
C12_RuleEffectiveness ==
  (Returned /\ capture_metadata) =>
    /\ DOMAIN Analytics.rule_effectiveness = DOMAIN Analytics.rule_usage \ {NO_MATCH}
    /\ \A k \in DOMAIN Analytics.rule_effectiveness :
         LET e == Analytics.rule_effectiveness[k]
             n == Cardinality(RecordsOf(k))
         IN  /\ n >= 1
             /\ e.usage_count = n
             /\ e.usage_count = Analytics.rule_usage[k]
             /\ 2 * (e.avg_confidence * n - ScoreSum(k)) <= n
             /\ 2 * (ScoreSum(k) - e.avg_confidence * n) <= n
             /\ \E i \in RecordsOf(k) : transaction_metadata[i].confidence_score <= e.avg_confidence
             /\ \E i \in RecordsOf(k) : transaction_metadata[i].confidence_score >= e.avg_confidence

\* one key matched twice with different confidence scores
C12_Witness ==
  /\ Returned /\ capture_metadata
  /\ \E k \in DOMAIN Analytics.rule_effectiveness :
       /\ Analytics.rule_effectiveness[k].usage_count = 2
       /\ \E i, j \in RecordsOf(k) :
            transaction_metadata[i].confidence_score < transaction_metadata[j].confidence_score
       /\ Analytics.rule_effectiveness[k].avg_confidence = 5

BlockFields == {"date", "description", "debit_account", "amount_prefix", "amount", "credit_account"}

\* C13: without capture_metadata the return value is the list of output
\* blocks alone; with it, the pair (output, metadata); the shape follows the
\* flag only, also for an empty transaction list.
C13_ReturnShape ==
  Returned =>
    IF capture_metadata
    THEN /\ Len(result) = 2
         /\ DOMAIN result[2] = {"transactions", "summary", "rule_analytics"}
         /\ result[1] = output
         /\ result[2].transactions = transaction_metadata
    ELSE /\ Len(result) = Len(output)
         /\ \A i \in 1..Len(result) : DOMAIN result[i] = BlockFields
         /\ result = output

\* the pair is returned for an empty transaction list
C13_Witness ==
  /\ Returned /\ capture_metadata
  /\ transactions_df = << >>
  /\ Len(result) = 2
  /\ result[1] = << >>
  /\ result[2].transactions = << >>

\* C14: a second call on the same processor with the same rows and rules and
\* capture_metadata = False returns the same list of output blocks as the
\* first call.
C14_SecondRunSameOutput ==
  (run = 2 /\ Returned) => (~capture_metadata /\ result = first_result)

\* the second call has returned a list with a block in it
C14_Witness ==
  /\ run = 2 /\ Returned
  /\ ~capture_metadata
  /\ Len(first_result) >= 1
  /\ result = first_result

\* the indices of the matched rows among the first n rows, ascending
MatchedRows(n) == SelectSeq([i \in 1..n |-> i], LAMBDA i : RowMatched(i))

\* C15: the output blocks are those of the matched rows in input order, and
\* the metadata records those of all rows in input order.
C15_InputOrder ==
  Running =>
    /\ \E matched \in {MatchedRows(idx)} :
         /\ Len(output) = Len(matched)
         /\ \A k \in 1..Len(output) :
              output[k] = output_block(rules, transactions_df[matched[k]],
                                       FirstRule(matched[k]))
    /\ capture_metadata =>
         /\ Len(transaction_metadata) = idx
         /\ \A i \in 1..idx :
              /\ transaction_metadata[i].description = DescOf(transactions_df[i])
              /\ transaction_metadata[i].amount = float_of_amount(transactions_df[i].amount)

\* two matched rows with different blocks and different records, in input order
C15_Witness ==
  /\ Running /\ capture_metadata /\ idx = 2
  /\ RowMatched(1) /\ RowMatched(2)
  /\ Len(output) = 2
  /\ output[1] # output[2]
  /\ output[1].description # output[2].description
  /\ transaction_metadata[1].description # transaction_metadata[2].description

Converted == m_pc \in {"converted", "matched"}

\* m_match begins with the keyword kw, character by character
BeginsWith(kw) == Len(m_match) >= Len(kw) /\ \A i \in 1..Len(kw) : m_match[i] = kw[i]

\* what follows the keyword kw in m_match
After(kw) == [i \in 1..(Len(m_match) - Len(kw)) |-> m_match[Len(kw) + i]]

Star == <<"*">>

\* C16: convert_pattern turns "contains X" into "*X*", "starts with X" into
\* "X*", "ends with X" into "*X", "exactly X" into "X" and leaves every other
\* text as it is; the keyword is recognised in lower case only and stripped
\* once, a keyword inside X is kept.
C16_ConvertPattern ==
  Converted =>
    m_rule.transaction_type =
      IF BeginsWith(KwContains) THEN Star \o After(KwContains) \o Star
      ELSE IF BeginsWith(KwStartsWith) THEN After(KwStartsWith) \o Star
      ELSE IF BeginsWith(KwEndsWith) THEN Star \o After(KwEndsWith)
      ELSE IF BeginsWith(KwExactly) THEN After(KwExactly)
      ELSE m_match

\* "contains exactly a" becomes "*exactly a*"
C16_Witness ==
  /\ Converted
  /\ m_match = KwContains \o KwExactly \o <<"a">>
  /\ m_rule.transaction_type = Star \o KwExactly \o <<"a">> \o Star

\* the normalising step of load_rules has run on a file with shorthand
Normalised ==
  /\ has_simplified_syntax(yaml_rules)
  /\ load_pc \in {"transformed", "returned", "raised"}
  /\ DOMAIN loaded_rules # {}

\* the (direction, position) pairs of the rules of the file
RulePositions ==
  {x \in (DOMAIN yaml_rules.rules) \X (1..MaxRules) : x[2] <= Len(yaml_rules.rules[x[1]])}

Written(x) == yaml_rules.rules[x[1]][x[2]]

Canonical(x) == loaded_rules.rules[x[1]][x[2]]

\* the alias-table value of an account, the account itself when it is no key
AliasValue(account) ==
  IF account \in DOMAIN combined_shortcuts THEN combined_shortcuts[account] ELSE account

ShorthandKeys == {"match", "to", "from"}

\* C17: transform_rules turns a rule {match, to, from} into one whose
\* transaction_type is convert_pattern(match), whose debit_account is the
\* alias-table value of `to` and whose credit_account that of `from`, a value
\* that is no alias passing through; match / to / from are gone.
C17_TransformRules ==
  Normalised =>
    /\ DOMAIN loaded_rules.rules = DOMAIN yaml_rules.rules
    /\ \A d \in DOMAIN yaml_rules.rules : Len(loaded_rules.rules[d]) = Len(yaml_rules.rules[d])
    /\ \A x \in RulePositions :
         /\ DOMAIN Canonical(x) \cap ShorthandKeys = {}
         /\ "match" \in DOMAIN Written(x) =>
              Canonical(x).transaction_type = convert_pattern(Written(x).match)
         /\ "to" \in DOMAIN Written(x) =>
              Canonical(x).debit_account = AliasValue(Written(x).to)
         /\ "from" \in DOMAIN Written(x) =>
              Canonical(x).credit_account = AliasValue(Written(x).from)

\* {match: "contains a", to: "checking", from: "Income:Salary"} with the
\* alias checking: the alias is resolved, the other account passes through
C17_Witness ==
  /\ Normalised
  /\ \E x \in RulePositions :
       /\ Written(x) = [match |-> KwContains \o <<"a">>, to |-> "checking",
                        from |-> "Income:Salary"]
       /\ Canonical(x) = [transaction_type |-> <<"*", "a", "*">>,
                          debit_account |-> "Assets:User:Checking",
                          credit_account |-> "Income:Salary"]

\* the alias table has been merged
Merged ==
  /\ has_simplified_syntax(yaml_rules)
  /\ load_pc \in {"merged", "transformed", "returned"}

\* the user's aliases, as the file gives them
UserAliases == IF "accounts" \in DOMAIN yaml_rules THEN yaml_rules.accounts ELSE EmptyDict

\* the preset's aliases, as the preset file of the named bank gives them
PresetAliases ==
  IF /\ "bank" \in DOMAIN yaml_rules
     /\ yaml_rules.bank # ""
     /\ preset_file.state = "parsed"
     /\ "accounts" \in DOMAIN preset_file.preset
  THEN preset_file.preset.accounts
  ELSE EmptyDict

\* C18: in the merged alias table a key of both the preset and the user has
\* the user's value, a key of the preset alone the preset's value.
C18_UserOverridesPreset ==
  Merged =>
    /\ DOMAIN combined_shortcuts = DOMAIN UserAliases \cup DOMAIN PresetAliases
    /\ \A k \in DOMAIN UserAliases : combined_shortcuts[k] = UserAliases[k]
    /\ \A k \in DOMAIN PresetAliases \ DOMAIN UserAliases :
         combined_shortcuts[k] = PresetAliases[k]

\* "checking" is defined by both with different values, "savings" by the preset
C18_Witness ==
  /\ Merged
  /\ "checking" \in DOMAIN UserAliases \cap DOMAIN PresetAliases
  /\ UserAliases.checking # PresetAliases.checking
  /\ combined_shortcuts.checking = UserAliases.checking
  /\ "savings" \in DOMAIN PresetAliases \ DOMAIN UserAliases
  /\ combined_shortcuts.savings = PresetAliases.savings

\* the canonical field that a shorthand key is written to
Target(k) ==
  CASE k = "match" -> "transaction_type" [] k = "to" -> "debit_account"
    [] k = "from" -> "credit_account"

\* the fields of a written rule that its shorthand keys overwrite
Overwritten(a_rule) == {Target(k) : k \in DOMAIN a_rule \cap ShorthandKeys}

TopLevelKept ==
  /\ DOMAIN loaded_rules = DOMAIN yaml_rules
  /\ \A k \in DOMAIN yaml_rules \ {"rules"} : loaded_rules[k] = yaml_rules[k]
  /\ DOMAIN loaded_rules.rules = DOMAIN yaml_rules.rules

\* C19 (as claimed): every field of a rule other than match / to / from keeps
\* its value, a transaction_type, debit_account or credit_account already
\* present included, and the top-level keys outside the rule lists are kept.
C19_AllOtherFieldsKept ==
  Normalised =>
    /\ TopLevelKept
    /\ \A x \in RulePositions :
         \A k \in DOMAIN Written(x) \ ShorthandKeys :
           k \in DOMAIN Canonical(x) /\ Canonical(x)[k] = Written(x)[k]

\* C19 (amended): every field of a rule other than match / to / from keeps
\* its value, except that a transaction_type / debit_account / credit_account
\* present beside match / to / from is replaced by the value made from the
\* shorthand key; the top-level keys outside the rule lists are kept.
C19_OtherFieldsKept ==
  Normalised =>
    /\ TopLevelKept
    /\ \A x \in RulePositions :
         /\ \A k \in DOMAIN Written(x) \ (ShorthandKeys \cup Overwritten(Written(x))) :
              k \in DOMAIN Canonical(x) /\ Canonical(x)[k] = Written(x)[k]
         /\ DOMAIN Canonical(x) =
              (DOMAIN Written(x) \ ShorthandKeys) \cup Overwritten(Written(x))
         /\ ("match" \in DOMAIN Written(x) /\ "transaction_type" \in DOMAIN Written(x)) =>
              Canonical(x).transaction_type = convert_pattern(Written(x).match)
         /\ ("to" \in DOMAIN Written(x) /\ "debit_account" \in DOMAIN Written(x)) =>
              Canonical(x).debit_account = AliasValue(Written(x).to)
         /\ ("from" \in DOMAIN Written(x) /\ "credit_account" \in DOMAIN Written(x)) =>
              Canonical(x).credit_account = AliasValue(Written(x).from)

\* a rule with match beside transaction_type and a free annotation: the
\* annotation is kept, the transaction_type is the converted match
C19_Witness ==
  /\ Normalised
  /\ \E x \in RulePositions :
       /\ {"match", "transaction_type", "note"} \subseteq DOMAIN Written(x)
       /\ Canonical(x).note = Written(x).note
       /\ Canonical(x).transaction_type # Written(x).transaction_type
       /\ Canonical(x).transaction_type = <<"a">>
       /\ Canonical(x).debit_account # Written(x).debit_account
  /\ loaded_rules.input = yaml_rules.input

\* C20 (as claimed): a metadata record carries the key "<direction>.<pattern>"
\* of the matched rule when the transaction matched, and "no_match" when it
\* matched no rule.
C20_RecordKeyOrNoMatch ==
  (Running /\ capture_metadata) =>
    \A i \in 1..Len(transaction_metadata) :
      transaction_metadata[i].matched_rule_key = FirstKey(i)

\* C20 (amended): a metadata record carries the key "<direction>.<pattern>"
\* of the matched rule when the transaction matched, and None, not
\* "no_match", when it matched no rule; "no_match" is a key of rule_usage only.
C20_RecordKeyOrNone ==
  (Running /\ capture_metadata) =>
    \A i \in 1..Len(transaction_metadata) :
      LET key == transaction_metadata[i].matched_rule_key
      IN  /\ RowMatched(i) =>
               key = OwnPrefix(transactions_df[i]) \o DOT \o FirstRule(i).transaction_type
          /\ ~RowMatched(i) => (key = NoneKey /\ key # NO_MATCH)
          /\ ~RowMatched(i) => NO_MATCH \in DOMAIN rule_usage

\* a matched record with its key beside an unmatched record without a key
C20_Witness ==
  /\ Running /\ capture_metadata
  /\ Len(transaction_metadata) = 2
  /\ RowMatched(1) /\ ~RowMatched(2)
  /\ transaction_metadata[1].matched_rule_key = INCOME \o DOT \o <<"r", "e", "n", "t">>
  /\ transaction_metadata[2].matched_rule_key = NoneKey
  /\ rule_usage[NO_MATCH] = 1

----------------------------------------------------------------------------
(* Properties of a run (SpecRun).  The reference notions are stated on the *)
(* export and the rule file as the file system holds them.                 *)

\* how far main has come
Stage ==
  [load_rules |-> 1, load_input_file |-> 2, sort_transactions |-> 3,
   normalize_transactions |-> 4, transform_transactions |-> 5, end |-> 6][run_pc]

\* a cell that reads as a number: digits, with commas and a leading minus
NumberText(x) ==
  LET t == SelectSeq(x, LAMBDA c : c # ",")
      body == IF t # << >> /\ Head(t) = "-" THEN Tail(t) ELSE t
  IN  body # << >> /\ \A i \in 1..Len(body) : body[i] \in Digits

NumberValue(x) == IF ~isna(x) /\ NumberText(x) THEN float_of_amount(x) ELSE 0

\* the rows of the export whose date is not null
DatedRows == {i \in 1..Len(input_file.rows) : ~isna(input_file.rows[i].date)}

\* a date text that is no date
BadDate == \E i \in DatedRows : ~IsDateText(input_file.rows[i].date)

\* a text that is no number, in an amount column / in a withdrawal or deposit column
BadAmount ==
  /\ input_file.layout = "amount"
  /\ \E i \in 1..Len(input_file.rows) : ~NumberText(input_file.rows[i].amount)

BadWithdrawDeposit ==
  /\ input_file.layout = "withdraw_deposit"
  /\ \E i \in DatedRows :
       \E x \in {input_file.rows[i].withdraw, input_file.rows[i].deposit} :
         ~isna(x) /\ x # << >> /\ ~NumberText(x)

\* the run has ended without an exception
Completed == run_pc = "end"

BadRuleFile ==
  \/ rules_file.state \in {"missing", "malformed"}
  \/ rules_file.content = YamlNone
  \/ "rules" \notin DOMAIN rules_file.content
  \/ \E d \in DOMAIN rules_file.content.rules :
       \E i \in 1..Len(rules_file.content.rules[d]) :
         LET entry == rules_file.content.rules[d][i]
         IN  \/ {"transaction_type", "match"} \cap DOMAIN entry = {}
             \/ {"debit_account", "to"} \cap DOMAIN entry = {}
             \/ {"credit_account", "from"} \cap DOMAIN entry = {}

\* load_rules has raised
RulesRaised == failure \in {"FileNotFoundError", "YAMLError"} \/ load_pc = "raised"

\* nothing has happened after load_rules
NothingLoaded ==
  /\ Stage = 1
  /\ df = << >>
  /\ pc = "idle" /\ idx = 0 /\ output = << >>
  /\ ledger_file = << >> /\ dashboard_file = << >>

\* C22: when the rule file is missing, malformed YAML, empty or fails schema
\* validation, load_rules raises and the run stops there: the input file is
\* not loaded, no transaction is processed and no ledger is written.
C22_BadRulesAbort ==
  /\ BadRuleFile => (NothingLoaded /\ load_pc # "returned")
  /\ RulesRaised => NothingLoaded

\* an empty rule file has been refused by the validation
C22_Witness ==
  /\ rules_file.state = "parsed" /\ rules_file.content = YamlNone
  /\ load_pc = "raised"
  /\ input_file.rows # << >>

----------------------------------------------------------------------------
(* Properties of load_rules (SpecLoad), continued *)

\* the file names no bank, or the preset file of the named bank is absent or
\* is not YAML
NoPreset ==
  \/ dict_get(yaml_rules, "bank", "") = ""
  \/ preset_file.state \in {"missing", "malformed"}

----------------------------------------------------------------------------
(* Properties of a run (SpecRun), continued *)

\* the ledger of the frame handed to transform_transactions: the blocks of
\* the rows that have a matching rule, in order
NormalLedger ==
  LET matched == SelectSeq([i \in 1..Len(transactions_df) |-> i],
                           LAMBDA i : row_rule(rules, transactions_df[i]) # None)
  IN  [k \in 1..Len(matched) |->
         output_block(rules, transactions_df[matched[k]],
                      row_rule(rules, transactions_df[matched[k]]))]

\* C24: review mode is additive.  Once transform_transactions has returned
\* in a run with --review and an output path, the run completes and the
\* ledger file holds what the run without --review writes; this for every
\* export, one without transactions included.
C24_ReviewAdditive ==
  (review /\ output_path(rules) # "" /\ pc = "done") =>
    /\ failure = ""
    /\ Completed => ledger_file = <<NormalLedger>>

----------------------------------------------------------------------------
(* Properties of transform_transactions (Spec), continued *)

\* the band of a confidence score (in tenths): high from 0.9, medium from
\* 0.4 to below 0.9, low below 0.4
Band(c) == IF c >= 9 THEN "high" ELSE IF c >= 4 THEN "medium" ELSE "low"

\* C25: every transaction lies in exactly one band (high >= 0.9, medium
\* 0.4 <= c < 0.9, low < 0.4), the groups of the rendered dashboard are the
\* bands, and the counts of the summary's confidence_distribution equal the
\* sizes of the dashboard's groups.
C25_BandsAgree ==
  (Returned /\ capture_metadata) =>
    LET dashboard == generate_markdown_dashboard(result[2])
        distribution == result[2].summary.confidence_distribution
        InBand(b) == SelectSeq(result[2].transactions,
                               LAMBDA tx : Band(tx.confidence_score) = b)
    IN  /\ dashboard.high_confidence = InBand("high")
        /\ dashboard.medium_confidence = InBand("medium")
        /\ dashboard.low_confidence = InBand("low")
        /\ distribution.high = Len(dashboard.high_confidence)
        /\ distribution.medium = Len(dashboard.medium_confidence)
        /\ distribution.low = Len(dashboard.low_confidence)

----------------------------------------------------------------------------
(* Properties of a run (SpecRun), continued *)

----------------------------------------------------------------------------
(* SpecBlocks: transform_transactions on rules that override the description *)

\* the rules of RuleCatalog, the wildcard one with a `description` of its own
BlockCatalog ==
  {[transaction_type |-> <<"r", "e", "n", "t">>,
    debit_account |-> Acct.bank, credit_account |-> Acct.rent],
   [transaction_type |-> <<"*", "R", "e", "n", "t", "*">>,
    debit_account |-> Acct.misc, credit_account |-> Acct.bank,
    description |-> <<"f", "l", "a", "t", "-", "r", "e", "n", "t">>]}

InitBlocks ==
  /\ \E entries \in StringsUpTo(Directions \X BlockCatalog, MaxRules) : rules = rules_of(entries)
  /\ transactions_df \in StringsUpTo(Rows, MaxTx)
  /\ capture_metadata = FALSE
  /\ pc = "ready"
  /\ idx = 0
  /\ rule = None
  /\ output = << >>
  /\ transaction_metadata = << >>
  /\ rule_usage = << >>
  /\ confidence_distribution = [high |-> 0, medium |-> 0, low |-> 0]
  /\ result = << >>
  /\ run = 1
  /\ first_result = << >>
  /\ first_capture = FALSE
  /\ MatchIdle
  /\ ScoreIdle
  /\ LoadIdle
  /\ RunIdle

SpecBlocks == InitBlocks /\ [][Next]_vars

\* the magnitude an amount text denotes: its digits, sign and commas aside
Magnitude(amount_str) == digits_value(SelectSeq(amount_str, LAMBDA c : c \in Digits), 0)

\* a text sanitised and title-cased as the output line has it
Titled(text) == title(re_sub_other(text, FALSE))

----------------------------------------------------------------------------
(* SpecBoth: transform_transactions called with capture_metadata False or  *)
(* True, then again on the same rows and rules with capture_metadata=True  *)

InitBoth ==
  /\ Init
  /\ \A i \in 1..Len(transactions_df) :
       ~isna(transactions_df[i].description) /\ transactions_df[i].amount # <<"0">>

\* the caller keeps what the first call returned and calls again, capturing
TransformAgainCapturing ==
  /\ pc = "done"
  /\ run = 1
  /\ run' = 2
  /\ first_result' = result
  /\ first_capture' = capture_metadata
  /\ capture_metadata' = TRUE
  /\ pc' = "ready"
  /\ UNCHANGED <<rules, transactions_df, idx, loopVars, result,
                 matchVars, scoreVars, loadVars, runVars>>

NextBoth == TransformStart \/ ProcessRow \/ TransformReturn \/ TransformAgainCapturing

SpecBoth == InitBoth /\ [][NextBoth]_vars

RECURSIVE SumOver(_, _)
SumOver(counts, keys) ==
  IF keys = {} THEN 0
  ELSE LET k == CHOOSE x \in keys : TRUE IN counts[k] + SumOver(counts, keys \ {k})

\* the sum of the counts of a mapping
SumCounts(counts) == SumOver(counts, DOMAIN counts)

\* C28: in a call that captures metadata the accumulators start empty and
\* are updated once per transaction: after the k-th transaction the counts
\* of rule_usage sum to k (and so do those of confidence_distribution and
\* the number of records), at the end they sum to total_transactions, and a
\* second call on the same processor returns the counts of its own
\* transactions only, those of the first call not added.
C28_AccumulatorsPerCall ==
  /\ (Running /\ capture_metadata) =>
       /\ SumCounts(rule_usage) = idx
       /\ SumCounts(confidence_distribution) = idx
       /\ Len(transaction_metadata) = idx
  /\ (Returned /\ capture_metadata) =>
       /\ SumCounts(result[2].summary.rule_usage) = result[2].summary.total_transactions
       /\ result[2].summary.total_transactions = Len(transactions_df)
  /\ (Returned /\ run = 2 /\ first_capture) =>
       result[2].summary = first_result[2].summary

\* the second of two capturing calls has returned: two transactions counted
\* under one key, as in the first call
C28_Witness ==
  /\ Returned /\ run = 2 /\ first_capture
  /\ Len(transactions_df) = 2
  /\ \E k \in DOMAIN result[2].summary.rule_usage : result[2].summary.rule_usage[k] = 2
  /\ result[2].summary.rule_usage = first_result[2].summary.rule_usage

\* C30: the capture_metadata flag does not change the ledger output: on the
\* same rows and rules the output list returned beside the metadata is the
\* list returned alone without it.
C30_CaptureKeepsOutput ==
  (Returned /\ run = 2 /\ ~first_capture) => result[1] = first_result

\* a call without and a call with metadata have returned the same two blocks
C30_Witness ==
  /\ Returned /\ run = 2 /\ ~first_capture /\ capture_metadata
  /\ Len(first_result) = 2
  /\ first_result[1] # first_result[2]
  /\ result[1] = first_result
  /\ Len(result[2].transactions) = 2

----------------------------------------------------------------------------
(* Properties of a run (SpecRun), continued *)

\* C29: sort_transactions drops the rows whose date is null and returns the
\* others, each once, in ascending date order; rows with identical
\* timestamps keep their input order.
C29_SortedStable ==
  Stage > 3 =>
    /\ Len(df) = Cardinality(DatedRows)
    /\ {df[i].index : i \in 1..Len(df)} = {i - 1 : i \in DatedRows}
    /\ \A i, j \in 1..Len(df) :
         i < j => /\ df[i].sort <= df[j].sort
                  /\ df[i].sort = df[j].sort => df[i].index < df[j].index

====
